---- MODULE Spec2Model ----
(***************************************************************************)
(* Model of the scanning subsystem of the disk-usage analyzer: the         *)
(* traversal strategies (legacy, POSIX-optimized), the shared traversal    *)
(* context (hardlink set, error list, progress counters, throttler) and    *)
(* the snapshot writer/reader.  The build modelled is the Linux one        *)
(* (cfg(unix)): WindowsTraversal::is_supported() is false there and the    *)
(* dispatcher demotes it to legacy.                                        *)
(***************************************************************************)
EXTENDS Integers, Sequences, FiniteSets, TLC

\* ------------------------------------------------------------------ bounds

\* The clock runs from 0 to MaxTicks * MIN_INTERVAL milliseconds within one scan.
MaxTicks == 2
\* Largest max_depth option enumerated (the tree is 3 levels deep).
MaxDepthOpt == 3
\* Longest list of entries, and of errors, handed to write_snapshot.
MaxRows == 2

\* --------------------------------------------------------- program constants

\* progress.rs: MIN_INTERVAL = 100 ms (times are in milliseconds)
MIN_INTERVAL == 100
\* progress.rs: MIN_BYTE_TRIGGER = 64 * 1024
MIN_BYTE_TRIGGER == 65536
\* progress.rs: DEFAULT_BYTE_TRIGGER
DEFAULT_BYTE_TRIGGER == 1000000
\* u64::MAX, the "byte trigger disabled" value; scaled to 32-bit integers
\* (every byte count of the model is far below it).
U64_MAX == 2147483647
\* test_scan.rs: the parity tolerance floor, 10 * 1024 * 1024
TOLERANCE_FLOOR == 10485760

\* ------------------------------------------------------------------ options

None == <<>>
Some(v) == <<v>>
IsSome(o) == o # <<>>
Unwrap(o) == o[1]

Max(a, b) == IF a >= b THEN a ELSE b

\* ------------------------------------------------------------ the file tree
\*
\*   root/            listing order: sub, a, oth
\*     sub/           listing order: b, deep
\*       b
\*       deep/
\*         c
\*     a
\*     oth/
\*       y
\*
\* and the wide tree, of the same depth with more directories side by side:
\*
\*   root/            listing order: sub, a, w1, w2, w3
\*     sub/
\*       deep/
\*         c
\*     a
\*     w1/  w2/  w3/  empty

Dirs == {"root", "sub", "deep", "oth"}
Files == {"a", "b", "c", "y"}
Nodes == Dirs \cup Files

\* the directories the wide tree has in addition
WideDirs == {"w1", "w2", "w3"}
AllDirs == Dirs \cup WideDirs

Parent(n) ==
  CASE n = "sub" -> "root"
    [] n = "a" -> "root"
    [] n = "oth" -> "root"
    [] n = "b" -> "sub"
    [] n = "deep" -> "sub"
    [] n = "c" -> "deep"
    [] n = "y" -> "oth"
    [] OTHER -> "root"

NodeDepth(n) ==
  CASE n = "root" -> 0
    [] n \in {"sub", "a", "oth"} -> 1
    [] n \in {"b", "deep", "y"} -> 2
    [] OTHER -> 3

\* n lies in the subtree rooted at d (d included)
InSubtree(n, d) ==
  \/ n = d
  \/ (n # "root" /\ Parent(n) = d)
  \/ (n # "root" /\ Parent(n) # "root" /\ Parent(Parent(n)) = d)
  \/ (n = "c" /\ d = "root")

FaultKinds == {"stat", "entry", "open", "list"}

VARIABLES
  world,             \* the environment of the scan: hardlinks, mount point, symlink, fault,
                     \* root spelling, how far the clock runs, the tree's width, the
                     \* number of threads of the worker pool
  opts,              \* ScanOptions
  run,               \* 0: a single scan; 1: the first scan of a parity pair, 2: its legacy scan
  phase,             \* "args" | "check" | "idle" | "traversing" | "done"
  first,             \* result of scan_summary for the first scan (None before it finished)
  summary,           \* result of scan_summary for the latest finished scan (None before)
  now,               \* the latest reading of the monotonic clock, ms
  strategy,          \* TraversalContext.strategy
  root_device,       \* TraversalContext.root_device : Option<u64>
  seen_inodes,       \* TraversalContext.seen_inodes
  entries,           \* TraversalContext.entries : path -> DirectoryEntry
  errors,            \* TraversalContext.errors
  processed_entries, \* TraversalContext.processed_entries
  processed_bytes,   \* TraversalContext.processed_bytes
  progress_events,   \* TraversalContext.progress_events
  throttler,         \* TraversalContext.progress_throttler
  frames,            \* one activation of traverse_recursive / traverse_directory_fd per directory
  counted,           \* history: file -> [res: what should_count_file returned, size: the size attributed]
  roundtrip,         \* the snapshot round trip: arguments of write_snapshot, the file, what read_snapshot returned
  probe,             \* history: the latest call of ProgressThrottler::consider, its receiver before the call and its result
  cmd,               \* the call under way (handle_scan, scan_summary or scan_to_snapshot), its arguments and its exit code
  callers,           \* the calls of set_root_device_if_absent under way: each caller's position, the mutex, what was written
  agg,               \* services/aggregate driven on its own: the shards built, the call made and its result
  sink               \* a ScanSink driven on its own: its fields, the row groups it wrote, what finish returned

Listing(d) ==
  CASE d = "root" -> IF world.wide THEN <<"sub", "a", "w1", "w2", "w3">>
                     ELSE <<"sub", "a", "oth">>
    [] d = "sub" -> IF world.wide THEN <<"deep">> ELSE <<"b", "deep">>
    [] d = "deep" -> <<"c">>
    [] d = "oth" -> <<"y">>
    [] OTHER -> <<>>

ctxVars == <<strategy, root_device, seen_inodes, entries, errors, processed_entries,
             processed_bytes, progress_events, throttler, frames, counted>>
vars == <<world, opts, run, phase, first, summary, now, ctxVars, roundtrip, probe, cmd, agg,
          callers, sink>>

\* ------------------------------------------------------- file metadata

\* the kind by the following variant of the metadata: a link resolves to its target
KindOfTarget(n) == IF n \in AllDirs THEN "dir" ELSE "file"

\* st_mode by the non-following variant (symlink_metadata, DirEntry::metadata)
Kind(n) ==
  IF n = world.sym THEN "symlink" ELSE IF n \in AllDirs THEN "dir" ELSE "file"

\* st_dev: everything under the mount point is on device 2; the mount point is
\* a directory or a single file mounted from another filesystem
Dev(n) == IF world.mnt # "none" /\ InSubtree(n, world.mnt) THEN 2 ELSE 1

\* st_ino: hardlinked names share one inode
Ino(n) ==
  CASE n = "a" -> 11
    [] n = "b" -> IF world.hl = "ab" THEN 11 ELSE 12
    [] n = "y" -> IF world.hl = "by" THEN 12 ELSE 13
    [] OTHER -> 14

\* st_size per inode
FileLen(n) ==
  CASE Ino(n) = 11 -> 20971520
    [] Ino(n) = 12 -> 65536
    [] Ino(n) = 13 -> 5
    [] OTHER -> 7

\* st_blocks per inode (512-byte units, 4 KiB allocation)
FileBlocks(n) ==
  CASE Ino(n) = 11 -> 40960
    [] Ino(n) = 12 -> 128
    [] OTHER -> 8

Fault(n, k) == world.fault = Some(<<n, k>>)

\* the sink returns an error from record_entry for the entry of n (k = "entry")
\* or from record_error for the failure met at n (k = "error")
SinkFails(n, k) == world.sink_fail = Some(<<n, k>>)


\* ------------------------------------------------------------------- paths
\* A path is its component list plus whether it is spelled with a trailing
\* separator ("/tmp/root/").

RootPath == [comps |-> <<"tmp", "root">>, trail |-> world.trail]

\* PathBuf::join: a separator is added only if the base does not end in one
Join(p, name) == [comps |-> Append(p.comps, name), trail |-> FALSE]

\* Path::parent: drops the last component; the result carries no trailing separator
PathParent(p) ==
  IF Len(p.comps) = 0 THEN None
  ELSE Some([comps |-> SubSeq(p.comps, 1, Len(p.comps) - 1), trail |-> FALSE])

\* normalize_path, cfg(not(windows)): the lossy string of the path, unchanged
normalize_path(p) == p

RECURSIVE PathOf(_)
PathOf(n) == IF n = "root" THEN RootPath ELSE Join(PathOf(Parent(n)), n)

\* --------------------------------------------------------- context helpers

\* file_id_from_metadata, cfg(unix): always Some((dev, ino))
file_id_from_metadata(n) == Some(<<Dev(n), Ino(n)>>)

get_device_id(n) == Dev(n)

\* should_count_file: the value returned, given the hardlink set at the call
should_count_fileDropsDedupe(n, seen) == TRUE
should_count_file(n, seen) ==
  IF opts.hardlink_policy = "count" THEN TRUE
  ELSE IF IsSome(file_id_from_metadata(n))
       THEN Unwrap(file_id_from_metadata(n)) \notin seen
       ELSE TRUE

\* should_count_file: the hardlink set after the call (HashSet::insert)
SeenAfterForgets(n, seen) == seen
SeenAfter(n, seen) ==
  IF opts.hardlink_policy = "dedupe" /\ IsSome(file_id_from_metadata(n))
  THEN seen \cup {Unwrap(file_id_from_metadata(n))}
  ELSE seen

\* get_size, cfg(unix)
get_size(n) ==
  IF opts.basis = "logical" THEN FileLen(n) ELSE FileBlocks(n) * 512

\* the io::ErrorKind each modelled failure carries
FaultErrorKind(k) ==
  CASE k = "stat" -> "NotFound"
    [] k = "open" -> "PermissionDenied"
    [] OTHER -> "Other"

\* a mapping that tells no kind apart
ErrorItemOfAlwaysIo(p, kind) == [path |-> p, code |-> "IO", message |-> kind]

\* record_error: the ErrorItem built from a path and an io::Error
ErrorItemOf(p, kind) ==
  [path |-> p,
   code |-> CASE kind = "NotFound" -> "ENOENT"
              [] kind = "PermissionDenied" -> "EACCES"
              [] OTHER -> "IO",
   message |-> kind]

\* max_depth.is_none_or(|max| depth <= max)
WithinDepthAlways(depth) == TRUE
WithinDepth(depth) ==
  IF IsSome(opts.max_depth) THEN depth <= Unwrap(opts.max_depth) ELSE TRUE

\* ----------------------------------------------------------- the throttler

\* ProgressThrottler::with_interval_and_trigger
NewThrottler(interval, trigger) ==
  [interval |-> Max(interval, MIN_INTERVAL),
   byte_trigger |-> Max(trigger, MIN_BYTE_TRIGGER),
   last_emit |-> None,
   last_emit_bytes |-> 0]

\* ProgressThrottler::set_interval: the emission state is kept
set_intervalNoFloor(th, interval, trigger) ==
  [th EXCEPT !.interval = interval, !.byte_trigger = trigger]
set_interval(th, interval, trigger) ==
  [th EXCEPT !.interval = Max(interval, MIN_INTERVAL),
             !.byte_trigger = Max(trigger, MIN_BYTE_TRIGGER)]

\* Instant::saturating_duration_since / u64::saturating_sub
SatSub(a, b) == IF a >= b THEN a - b ELSE 0

\* compute_throughput: bytes * 10^9 / nanos, None when no time elapsed.
\* Every instant is a multiple of 25 ms, so the quotient is taken on that
\* scale (the same number; it keeps the product within the integer range).
compute_throughput(bytes_delta, elapsed) ==
  IF elapsed = 0 THEN None
  ELSE Some((bytes_delta * 40) \div (elapsed \div 25))

\* consider with the byte gate left out: the byte trigger alone decides
considerNoByteGate(th, t, bytes, ents, timestamp_ms) ==
  IF th.last_emit = None
  THEN [th |-> [th EXCEPT !.last_emit = Some(t), !.last_emit_bytes = bytes], snap |-> None]
  ELSE LET elapsed == SatSub(t, Unwrap(th.last_emit))
           bytes_delta == SatSub(bytes, th.last_emit_bytes)
       IN IF elapsed >= th.interval
             \/ (th.byte_trigger # U64_MAX /\ bytes_delta >= th.byte_trigger)
          THEN [th |-> [th EXCEPT !.last_emit = Some(t), !.last_emit_bytes = bytes],
                snap |-> Some([timestamp_ms |-> timestamp_ms,
                               processed_entries |-> ents,
                               processed_bytes |-> bytes,
                               estimated_completion_ratio |-> None,
                               recent_throughput_bytes_per_sec |->
                                  compute_throughput(bytes_delta, elapsed)])]
          ELSE [th |-> th, snap |-> None]

\* consider with both gates left out: every call after the first emits
considerEveryCall(th, t, bytes, ents, timestamp_ms) ==
  IF th.last_emit = None
  THEN [th |-> [th EXCEPT !.last_emit = Some(t), !.last_emit_bytes = bytes], snap |-> None]
  ELSE [th |-> [th EXCEPT !.last_emit = Some(t), !.last_emit_bytes = bytes],
        snap |-> Some([timestamp_ms |-> timestamp_ms,
                       processed_entries |-> ents,
                       processed_bytes |-> bytes,
                       estimated_completion_ratio |-> None,
                       recent_throughput_bytes_per_sec |->
                          compute_throughput(SatSub(bytes, th.last_emit_bytes),
                                             SatSub(t, Unwrap(th.last_emit)))])]

\* ProgressThrottler::consider: [th: the throttler after the call, snap: Option<ProgressSnapshot>]
consider(th, t, bytes, ents, timestamp_ms) ==
  IF th.last_emit = None
  THEN [th |-> [th EXCEPT !.last_emit = Some(t), !.last_emit_bytes = bytes], snap |-> None]
  ELSE LET elapsed == SatSub(t, Unwrap(th.last_emit))
           bytes_delta == SatSub(bytes, th.last_emit_bytes)
           time_ready == elapsed >= th.interval
           byte_gate == Max(th.interval \div 2, MIN_INTERVAL)
           bytes_ready == /\ th.byte_trigger # U64_MAX
                          /\ elapsed >= byte_gate
                          /\ bytes_delta >= th.byte_trigger
       IN IF time_ready \/ bytes_ready
          THEN [th |-> [th EXCEPT !.last_emit = Some(t), !.last_emit_bytes = bytes],
                snap |-> Some([timestamp_ms |-> timestamp_ms,
                               processed_entries |-> ents,
                               processed_bytes |-> bytes,
                               estimated_completion_ratio |-> None,
                               recent_throughput_bytes_per_sec |->
                                  compute_throughput(bytes_delta, elapsed)])]
          ELSE [th |-> th, snap |-> None]

\* ProgressThrottler::force_emit (the ratio 1.0 is written 1)
force_emitUnmarked(th, t, bytes, ents, timestamp_ms) ==
  [th |-> [th EXCEPT !.last_emit = Some(t), !.last_emit_bytes = bytes],
   snap |-> Some([timestamp_ms |-> timestamp_ms,
                  processed_entries |-> ents,
                  processed_bytes |-> bytes,
                  estimated_completion_ratio |-> None,
                  recent_throughput_bytes_per_sec |->
                     IF th.last_emit = None THEN None
                     ELSE compute_throughput(SatSub(bytes, th.last_emit_bytes),
                                             SatSub(t, Unwrap(th.last_emit)))])]
force_emit(th, t, bytes, ents, timestamp_ms) ==
  [th |-> [th EXCEPT !.last_emit = Some(t), !.last_emit_bytes = bytes],
   snap |-> Some([timestamp_ms |-> timestamp_ms,
                  processed_entries |-> ents,
                  processed_bytes |-> bytes,
                  estimated_completion_ratio |-> Some(1),
                  recent_throughput_bytes_per_sec |->
                     IF th.last_emit = None THEN None
                     ELSE compute_throughput(SatSub(bytes, th.last_emit_bytes),
                                             SatSub(t, Unwrap(th.last_emit)))])]


\* --------------------------------------------------------------- scenarios

BaseWorld ==
  [hl |-> "none", mnt |-> "none", sym |-> "none", fault |-> None, trail |-> FALSE, clock |-> 0,
   wide |-> FALSE,   \* the wide tree is scanned
   pool |-> 2,       \* threads of the rayon pool: at least as many as the narrow tree can keep busy
   sink_fail |-> None,  \* the record call on the sink that returns an error, if any
   root_kind |-> "dir", \* what the root path names: "dir" | "file" | "missing"
   write_fail |-> FALSE] \* write_snapshot meets an I/O error

\* ScanOptions; the interval is the shortest the throttler accepts so that
\* snapshots are emitted within the clock bound
BaseOpts ==
  [basis |-> "logical", max_depth |-> None, hardlink_policy |-> "dedupe",
   follow_symlinks |-> FALSE, cross_filesystem |-> FALSE, strategy_override |-> None,
   progress_interval |-> MIN_INTERVAL, progress_byte_trigger |-> DEFAULT_BYTE_TRIGGER]

\* the failures a node can show: a directory can fail to open or to list, any
\* child can fail to stat or to be read from its parent's listing
Faults ==
  {<<n, k>> : n \in Nodes \ {"root"}, k \in {"stat", "entry"}}
    \cup {<<d, k>> : d \in Dirs, k \in {"open", "list"}}
    \cup {<<"root", "stat">>}

\* the scanned trees and options, before the choice of a strategy
Families ==
  {[world |-> [BaseWorld EXCEPT !.hl = h], opts |-> [BaseOpts EXCEPT !.hardlink_policy = p]] :
      h \in {"none", "ab", "by"}, p \in {"dedupe", "count"}}
  \cup {[world |-> BaseWorld, opts |-> [BaseOpts EXCEPT !.max_depth = Some(k)]] :
      k \in 0..MaxDepthOpt}
  \cup {[world |-> [BaseWorld EXCEPT !.fault = Some(f)], opts |-> BaseOpts] : f \in Faults}
  \cup {[world |-> [BaseWorld EXCEPT !.mnt = m], opts |-> [BaseOpts EXCEPT !.cross_filesystem = x]] :
      m \in {"oth", "deep", "a"}, x \in BOOLEAN}
  \cup {[world |-> [BaseWorld EXCEPT !.sym = l], opts |-> [BaseOpts EXCEPT !.follow_symlinks = x]] :
      l \in {"a", "oth"}, x \in BOOLEAN}
  \cup {[world |-> [BaseWorld EXCEPT !.trail = TRUE], opts |-> BaseOpts]}
  \cup {[world |-> BaseWorld, opts |-> [BaseOpts EXCEPT !.basis = "physical"]]}

\* the scans with a running clock, during which progress snapshots are emitted
Clocked ==
  {[world |-> [BaseWorld EXCEPT !.clock = MaxTicks], opts |-> BaseOpts],
   \* a longer interval and the smallest byte trigger, three files reaching it
   [world |-> [BaseWorld EXCEPT !.clock = MaxTicks, !.hl = "by"],
    opts |-> [BaseOpts EXCEPT !.progress_interval = 2 * MIN_INTERVAL,
                              !.progress_byte_trigger = MIN_BYTE_TRIGGER,
                              !.hardlink_policy = "count"]]}

\* every family under the platform's strategy and under the legacy override,
\* and the override the platform does not support
Scenarios ==
  {[world |-> sc.world, opts |-> [sc.opts EXCEPT !.strategy_override = o]] :
      sc \in Families \cup Clocked, o \in {None, Some("legacy")}}
  \cup {[world |-> BaseWorld, opts |-> [BaseOpts EXCEPT !.strategy_override = Some("windows")]]}

\* ------------------------------------------------------------------ frames

NewFrame ==
  [pc |-> "idle", idx |-> 1, total_size |-> 0, file_count |-> 0, dir_count |-> 0,
   depth |-> 0, child_dirs |-> <<>>, file_size |-> 0, after |-> "none",
   p_entries |-> 0, p_bytes |-> 0, p_now |-> 0, snap |-> None,
   ok |-> TRUE, val |-> 0,
   engine |-> "none",   \* history, root frame: the traversal function the dispatcher invoked
   err |-> "none",      \* history: "sink" when the frame returned the sink's error
   fd |-> "none",       \* posix: the OwnedFd of the directory: "none" | "open" | "closed"
   dir |-> "none"]      \* the listing handle (rustix Dir / fs::ReadDir): "none" | "open" | "closed"

\* TraversalContext::new
NewContext ==
  /\ strategy = "legacy"
  /\ root_device = None
  /\ seen_inodes = {}
  /\ entries = <<>>
  /\ errors = <<>>
  /\ processed_entries = 0
  /\ processed_bytes = 0
  /\ progress_events = <<>>
  /\ throttler = NewThrottler(opts.progress_interval, opts.progress_byte_trigger)
  /\ frames = [d \in AllDirs |-> NewFrame]
  /\ counted = <<>>

\* no snapshot written
NoSnapshot ==
  [state |-> "none", meta |-> None, entries |-> <<>>, errors |-> <<>>, file |-> <<>>,
   result |-> None,
   order |-> <<>>]   \* the order of the row groups, for a file not laid out by write_snapshot

\* consider not called yet
NoProbe ==
  [called |-> FALSE, before |-> None, t |-> 0, bytes |-> 0, snap |-> None,
   forced |-> None,   \* the latest call of force_emit: its receiver before the call and its result
   sets |-> 0]        \* the set_interval calls made

\* no command under way: the traversal is driven directly
NoCommand ==
  [api |-> "none", args |-> None,
   exit |-> None]   \* the exit code handle_scan returned

\* the threads that call set_root_device_if_absent on one context
MaxCallers == 3
Callers == 1..MaxCallers

\* no call of set_root_device_if_absent under way
NoCalls ==
  [pc |-> [w \in Callers |-> "idle"],   \* "idle" | "lock" | "locked" | "unlock" | "done"
   device |-> [w \in Callers |-> 0],    \* the argument of the call
   holder |-> None,                     \* the thread holding the mutex of root_device
   writes |-> <<>>]                     \* history: the values stored into the cell, in order

\* AggregateTotals::default / DirectoryShard::default
NoTotals == [size_bytes |-> 0, files |-> 0, directories |-> 0]
NoShard == [entries |-> <<>>, totals |-> NoTotals]

\* no function of services/aggregate called, two empty shards
NoAggregate ==
  [op |-> "none", shards |-> <<NoShard, NoShard>>,
   absorbed |-> 0,     \* the absorb_entry calls made
   input |-> <<>>, sort_by |-> "size", top_k |-> None,
   result |-> <<>>,    \* what the call returned
   swapped |-> <<>>]   \* what consolidate_shards returned for the shards in the other order

\* no sink constructed; the fields of ParquetStreamSink and MemorySink, and as
\* history the row groups written, the calls made and what they returned
NoSink ==
  [kind |-> "none", buffer |-> <<>>, buffer_capacity |-> 0, errors |-> <<>>,
   entry_count |-> 0, metadata |-> None, entries |-> <<>>,
   configured |-> None,    \* the buffer_capacity argument of try_new
   writer |-> "none",      \* "open" | "taken" (finish took it) | "closed"
   written |-> <<>>,       \* the batches writer.write accepted, in order
   calls |-> <<>>,         \* the calls made on the sink: [op, arg, ok]
   finished |-> None]      \* what finish returned

Init ==
  /\ \E sc \in Scenarios : world = sc.world /\ opts = sc.opts
  /\ roundtrip = NoSnapshot
  /\ run = 0
  /\ phase = "idle"
  /\ first = None
  /\ summary = None
  /\ now = 0
  /\ NewContext
  /\ probe = NoProbe
  /\ cmd = NoCommand
  /\ agg = NoAggregate
  /\ callers = NoCalls
  /\ sink = NoSink


\* ------------------------------------------------------------ the dispatcher

\* WindowsTraversal::is_supported / PosixTraversal::is_supported on this build
IsSupported(kind) == kind = "posix"

\* TraversalDispatcher::ensure_supported
ensure_supportedNoDemotion(kind) == kind
ensure_supported(kind) ==
  IF kind \in {"windows", "posix"} /\ IsSupported(kind) THEN kind ELSE "legacy"

\* detect::filesystem_kind_for_path (Linux: EXT) and detect::strategy_for_filesystem
strategy_for_filesystem(fs_kind) ==
  CASE fs_kind = "NTFS" -> "windows"
    [] fs_kind \in {"APFS", "EXT"} -> "posix"
    [] OTHER -> "legacy"

\* TraversalDispatcher::resolve_strategy
resolve_strategy(override) ==
  IF IsSome(override) THEN ensure_supported(Unwrap(override))
  ELSE ensure_supported(strategy_for_filesystem("EXT"))

\* TraversalDispatcher::traverse, the match on the resolved strategy: the
\* traversal function invoked
invoke(resolved) ==
  CASE resolved = "legacy" -> "legacy::traverse_directory"
    [] resolved = "windows" -> "WindowsTraversal::traverse"
    [] resolved = "posix" -> "PosixTraversal::traverse"

\* the strategy override of the scan under way: the second scan of a tree is
\* the legacy one the first is compared with
RunOverride == IF run = 2 THEN Some("legacy") ELSE opts.strategy_override

\* ------------------------------------------------------------- frame helpers

\* drop of an OwnedFd or of a listing handle that was opened: close(2)
dropKeepsOpen(h) == h
drop(h) == IF h = "open" THEN "closed" ELSE h

\* the frames running on a worker thread: past the head of the function, not
\* waiting in the parallel join and not returned
RunningPcs == {"loop", "p_entries", "p_bytes", "p_now", "p_consider", "p_push",
               "emit_file", "emit_dir"}
Running == {x \in AllDirs : frames[x].pc \in RunningPcs}

\* traverse_directory_fd returns the sink's error through `?`: its locals go
\* out of scope, so the listing handle, the directory's descriptor and the
\* descriptors already opened for child directories are dropped
AbortFramesReturnsOk(d) ==
  [x \in AllDirs |->
     IF x = d
     THEN [frames[d] EXCEPT !.pc = "ret", !.ok = TRUE, !.val = 0, !.err = "sink",
                            !.fd = drop(frames[d].fd), !.dir = drop(frames[d].dir)]
     ELSE IF \E i \in 1..Len(frames[d].child_dirs) : frames[d].child_dirs[i] = x
          THEN [frames[x] EXCEPT !.fd = drop(frames[x].fd)]
          ELSE frames[x]]
AbortFrames(d) ==
  [x \in AllDirs |->
     IF x = d
     THEN [frames[d] EXCEPT !.pc = "ret", !.ok = FALSE, !.val = 0, !.err = "sink",
                            !.fd = drop(frames[d].fd), !.dir = drop(frames[d].dir)]
     ELSE IF \E i \in 1..Len(frames[d].child_dirs) : frames[d].child_dirs[i] = x
          THEN [frames[x] EXCEPT !.fd = drop(frames[x].fd)]
          ELSE frames[x]]

ReturnedDropsTotal(f, ok, val) == [f EXCEPT !.pc = "ret", !.ok = ok, !.val = 0]
Returned(f, ok, val) == [f EXCEPT !.pc = "ret", !.ok = ok, !.val = val]

Siblings(d) == {c \in AllDirs \ {"root", d} : Parent(c) = Parent(d)}

\* a sibling subtree has already returned an error to the parallel join
SiblingFailed(d) ==
  d # "root" /\ \E c \in Siblings(d) : frames[c].pc = "ret" /\ ~frames[c].ok

\* the device check of a child against the recorded root device
OtherDevice(n) ==
  /\ ~opts.cross_filesystem
  /\ IsSome(root_device)
  /\ get_device_id(n) # Unwrap(root_device)

\* a setter without the is_none test: the last caller wins
set_root_device_if_absentOverwrites(cell, device) ==
  IF opts.cross_filesystem THEN cell ELSE Some(device)

\* set_root_device_if_absent
set_root_device_if_absent(cell, device) ==
  IF opts.cross_filesystem THEN cell
  ELSE IF cell = None THEN Some(device) ELSE cell

\* ------------------------------------------------------------------ actions

\* scan_summary up to the strategy's first directory: TraversalContext::new,
\* TraversalDispatcher::traverse, then legacy::traverse_directory or posix_traverse
StartScan ==
  /\ phase = "idle"
  /\ phase' = "traversing"
  /\ now' = 0
  /\ strategy' = resolve_strategy(RunOverride)
  /\ seen_inodes' = {}
  /\ entries' = <<>>
  /\ processed_entries' = 0
  /\ processed_bytes' = 0
  /\ progress_events' = <<>>
  /\ throttler' = NewThrottler(opts.progress_interval, opts.progress_byte_trigger)
  /\ counted' = <<>>
  /\ LET fresh == [d \in AllDirs |-> IF d = "root"
                                   THEN [NewFrame EXCEPT !.engine = invoke(strategy')]
                                   ELSE NewFrame] IN
     IF Fault("root", "stat") /\ strategy' = "posix" /\ SinkFails("root", "error")
     THEN /\ errors' = <<>>
          /\ root_device' = None
          /\ frames' = [fresh EXCEPT !["root"] =
                           [Returned(fresh["root"], FALSE, 0) EXCEPT !.err = "sink"]]
     ELSE IF Fault("root", "stat")
     THEN /\ errors' = <<ErrorItemOf(RootPath, FaultErrorKind("stat"))>>
          /\ root_device' = None
          /\ frames' = [fresh EXCEPT !["root"] = Returned(fresh["root"], TRUE, 0)]
     ELSE /\ errors' = <<>>
          /\ root_device' = set_root_device_if_absent(None, get_device_id("root"))
          /\ frames' = IF strategy' = "posix" /\ Fault("root", "open")
                       THEN [fresh EXCEPT !["root"] = Returned(fresh["root"], FALSE, 0)]
                       ELSE IF strategy' = "posix"
                       THEN [fresh EXCEPT !["root"].pc = "ready", !["root"].fd = "open"]
                       ELSE [fresh EXCEPT !["root"].pc = "ready"]
  /\ UNCHANGED <<callers, agg, cmd, probe, sink, roundtrip, world, opts, run, first, summary>>

\* the head of traverse_recursive (legacy) / traverse_directory_fd (posix),
\* up to the start of the loop over the directory's entries
Enter(d) ==
  /\ phase = "traversing"
  /\ frames[d].pc = "ready"
  /\ ~(strategy = "posix" /\ SiblingFailed(d))
  /\ strategy = "posix" => Cardinality(Running) < world.pool
  /\ LET f == frames[d] IN
     IF ~WithinDepth(f.depth)
     THEN /\ frames' = [frames EXCEPT ![d] = Returned([f EXCEPT !.fd = drop(f.fd)], TRUE, 0)]
          /\ UNCHANGED errors
     ELSE IF strategy = "posix"
     THEN /\ frames' = [frames EXCEPT ![d] =
                          IF Fault(d, "list") THEN Returned([f EXCEPT !.fd = drop(f.fd)], FALSE, 0)
                          ELSE [f EXCEPT !.pc = "loop", !.dir = "open"]]
          /\ UNCHANGED errors
     ELSE IF OtherDevice(d)
     THEN /\ frames' = [frames EXCEPT ![d] = Returned(f, TRUE, 0)]
          /\ UNCHANGED errors
     ELSE IF Fault(d, "open") \/ Fault(d, "list")
     THEN /\ errors' = Append(errors, ErrorItemOf(PathOf(d), FaultErrorKind(Unwrap(world.fault)[2])))
          /\ frames' = [frames EXCEPT ![d] = Returned(f, TRUE, 0)]
     ELSE /\ frames' = [frames EXCEPT ![d].pc = "loop", ![d].dir = "open"]
          /\ UNCHANGED errors
  /\ UNCHANGED <<callers, agg, cmd, probe, sink, roundtrip, world, opts, run, phase, first, summary, now, strategy, root_device,
                 seen_inodes, entries, processed_entries, processed_bytes,
                 progress_events, throttler, counted>>

\* rayon's try_for_each hands out no further child once one has failed
SkipChild(d) ==
  /\ phase = "traversing"
  /\ frames[d].pc = "ready"
  /\ strategy = "posix"
  /\ SiblingFailed(d)
  /\ frames' = [frames EXCEPT ![d].pc = "skipped", ![d].fd = drop(frames[d].fd)]
  /\ UNCHANGED <<callers, agg, cmd, probe, sink, roundtrip, world, opts, run, phase, first, summary, now, strategy, root_device,
                 seen_inodes, entries, errors, processed_entries, processed_bytes,
                 progress_events, throttler, counted>>


\* one iteration of the loop over the directory's entries, up to the first
\* call on shared state that follows it (register_file_progress) or to the
\* recursive call (legacy)
VisitChild(d) ==
  /\ phase = "traversing"
  /\ frames[d].pc = "loop"
  /\ frames[d].idx <= Len(Listing(d))
  /\ LET f == frames[d]
         c == Listing(d)[f.idx]
         next == [f EXCEPT !.idx = f.idx + 1]
         \* posix: context.record_error(..)? returned the sink's error
         sink_error == strategy = "posix" /\ SinkFails(c, "error")
         abort == /\ frames' = AbortFrames(d)
                  /\ UNCHANGED <<errors, seen_inodes, counted>>
     IN
     IF Fault(c, "entry") /\ sink_error
     THEN abort
     ELSE IF Fault(c, "entry")
     THEN /\ errors' = Append(errors, ErrorItemOf(PathOf(d), FaultErrorKind("entry")))
          /\ frames' = [frames EXCEPT ![d] = next]
          /\ UNCHANGED <<seen_inodes, counted>>
     ELSE IF Fault(c, "stat") /\ sink_error
     THEN abort
     ELSE IF Fault(c, "stat")
     THEN /\ errors' = Append(errors, ErrorItemOf(PathOf(c), FaultErrorKind("stat")))
          /\ frames' = [frames EXCEPT ![d] = next]
          /\ UNCHANGED <<seen_inodes, counted>>
     ELSE IF strategy = "posix" /\ Kind(c) = "symlink" /\ ~opts.follow_symlinks
     THEN /\ frames' = [frames EXCEPT ![d] = next]
          /\ UNCHANGED <<errors, seen_inodes, counted>>
     ELSE IF strategy = "posix" /\ OtherDevice(c)
     THEN /\ frames' = [frames EXCEPT ![d] = next]
          /\ UNCHANGED <<errors, seen_inodes, counted>>
     ELSE IF Kind(c) = "file"
     THEN LET cnt == should_count_file(c, seen_inodes)
              size == IF cnt THEN get_size(c) ELSE 0
          IN /\ seen_inodes' = SeenAfter(c, seen_inodes)
             /\ counted' = (c :> [res |-> cnt, size |-> size]) @@ counted
             /\ frames' = [frames EXCEPT ![d] =
                             [f EXCEPT !.total_size = f.total_size + size,
                                       !.file_count = f.file_count + 1,
                                       !.file_size = size,
                                       !.pc = "p_entries",
                                       !.after = "emit_file"]]
             /\ UNCHANGED errors
     ELSE IF Kind(c) = "dir" /\ strategy = "posix"
     THEN LET counted_dir == [next EXCEPT !.dir_count = f.dir_count + 1] IN
          IF ~WithinDepth(f.depth + 1)
          THEN /\ frames' = [frames EXCEPT ![d] = counted_dir]
               /\ UNCHANGED <<errors, seen_inodes, counted>>
          ELSE IF Fault(c, "open") /\ sink_error
          THEN abort
          ELSE IF Fault(c, "open")
          THEN /\ errors' = Append(errors, ErrorItemOf(PathOf(c), FaultErrorKind("open")))
               /\ frames' = [frames EXCEPT ![d] = counted_dir]
               /\ UNCHANGED <<seen_inodes, counted>>
          ELSE /\ frames' = [frames EXCEPT ![d] =
                               [counted_dir EXCEPT !.child_dirs = Append(f.child_dirs, c)],
                                           ![c] = [NewFrame EXCEPT !.fd = "open"]]
               /\ UNCHANGED <<errors, seen_inodes, counted>>
     ELSE IF Kind(c) = "dir"
     THEN /\ frames' = [frames EXCEPT ![d].pc = "call",
                                      ![c] = [NewFrame EXCEPT !.pc = "ready",
                                                              !.depth = f.depth + 1]]
          /\ UNCHANGED <<errors, seen_inodes, counted>>
     ELSE /\ frames' = [frames EXCEPT ![d] = next]
          /\ UNCHANGED <<errors, seen_inodes, counted>>
  /\ UNCHANGED <<callers, agg, cmd, probe, sink, roundtrip, world, opts, run, phase, first, summary, now, strategy, root_device,
                 entries, processed_entries, processed_bytes, progress_events, throttler>>

\* the end of the loop: legacy goes on to the directory's own entry; posix
\* drops the directory's descriptor and hands the child directories to the pool
EndLoop(d) ==
  /\ phase = "traversing"
  /\ frames[d].pc = "loop"
  /\ frames[d].idx > Len(Listing(d))
  /\ LET f == frames[d] IN
     frames' =
       IF strategy = "posix"
       THEN [x \in AllDirs |->
               IF x = d THEN [f EXCEPT !.pc = "join", !.dir = drop(f.dir), !.fd = drop(f.fd)]
               ELSE IF \E i \in 1..Len(f.child_dirs) : f.child_dirs[i] = x
                    THEN [frames[x] EXCEPT !.pc = "ready", !.depth = f.depth + 1]
                    ELSE frames[x]]
       ELSE [frames EXCEPT ![d].pc = "emit_dir", ![d].dir = drop(f.dir)]
  /\ UNCHANGED <<callers, agg, cmd, probe, sink, roundtrip, world, opts, run, phase, first, summary, now, strategy, root_device,
                 seen_inodes, entries, errors, processed_entries, processed_bytes,
                 progress_events, throttler, counted>>

\* legacy: the recursive call returns into the loop of the parent
Return(d) ==
  /\ phase = "traversing"
  /\ frames[d].pc = "call"
  /\ LET f == frames[d]
         c == Listing(d)[f.idx]
     IN /\ frames[c].pc = "ret"
        /\ frames' = [frames EXCEPT ![d] = [f EXCEPT !.pc = "loop",
                                                     !.idx = f.idx + 1,
                                                     !.total_size = f.total_size + frames[c].val,
                                                     !.dir_count = f.dir_count + 1],
                                    ![c].pc = "done"]
  /\ UNCHANGED <<callers, agg, cmd, probe, sink, roundtrip, world, opts, run, phase, first, summary, now, strategy, root_device,
                 seen_inodes, entries, errors, processed_entries, processed_bytes,
                 progress_events, throttler, counted>>

RECURSIVE SumVals(_, _)
SumVals(fr, ds) ==
  IF ds = <<>> THEN 0 ELSE fr[Head(ds)].val + SumVals(fr, Tail(ds))

\* a join that does not wait for the children
ChildrenJoinedNoWait(kids) == TRUE

\* into_par_iter().try_for_each(..) returns once every child task has returned
\* or was never started
ChildrenJoined(kids) == \A c \in kids : frames[c].pc \in {"ret", "skipped"}

\* posix: the parallel try_for_each over the child directories has ended;
\* its error is returned, else the children's totals are folded in
JoinChildren(d) ==
  /\ phase = "traversing"
  /\ frames[d].pc = "join"
  /\ Cardinality(Running) < world.pool
  /\ LET f == frames[d]
         kids == {f.child_dirs[i] : i \in 1..Len(f.child_dirs)}
     IN /\ ChildrenJoined(kids)
        /\ frames' = [frames EXCEPT ![d] =
                        IF \E c \in kids : frames[c].pc = "ret" /\ ~frames[c].ok
                        THEN Returned(f, FALSE, 0)
                        ELSE [f EXCEPT !.pc = "emit_dir",
                                       !.total_size = f.total_size + SumVals(frames, f.child_dirs)]]
  /\ UNCHANGED <<callers, agg, cmd, probe, sink, roundtrip, world, opts, run, phase, first, summary, now, strategy, root_device,
                 seen_inodes, entries, errors, processed_entries, processed_bytes,
                 progress_events, throttler, counted>>


\* where a frame goes on after register_*_progress
AfterProgress(f) ==
  IF f.after = "emit_file" THEN [f EXCEPT !.pc = "emit_file"]
  ELSE Returned(f, TRUE, f.total_size)

\* TraversalContext::elapsed_ms (start_instant is time 0 of the scan)
elapsed_ms(t) == t

\* Instant::now: a reading of the monotonic clock is at or after every earlier one
ClockReads == {t \in {k * MIN_INTERVAL : k \in 0..world.clock} : t >= now}

\* register_file_progress / register_directory_progress and maybe_emit_progress,
\* one step per access to shared state: the fetch_add on processed_entries, the
\* fetch_add / load on processed_bytes, Instant::now, the throttler under its
\* lock, the push onto progress_events under its lock
RegisterProgress(d) ==
  /\ phase = "traversing"
  /\ frames[d].pc \in {"p_entries", "p_bytes", "p_now", "p_consider", "p_push"}
  /\ LET f == frames[d]
         r == consider(throttler, f.p_now, f.p_bytes, f.p_entries, elapsed_ms(f.p_now))
     IN
     CASE f.pc = "p_entries" ->
            /\ processed_entries' = processed_entries + 1
            /\ now' = now
            /\ frames' = [frames EXCEPT ![d] = [f EXCEPT !.pc = "p_bytes",
                                                         !.p_entries = processed_entries + 1]]
            /\ UNCHANGED <<processed_bytes, throttler, progress_events>>
       [] f.pc = "p_bytes" ->
            LET add == IF f.after = "emit_file" THEN f.file_size ELSE 0 IN
            /\ processed_bytes' = processed_bytes + add
            /\ now' = now
            /\ frames' = [frames EXCEPT ![d] = [f EXCEPT !.pc = "p_now",
                                                         !.p_bytes = processed_bytes + add]]
            /\ UNCHANGED <<processed_entries, throttler, progress_events>>
       [] f.pc = "p_now" ->
            /\ \E t \in ClockReads :
                  /\ now' = t
                  /\ frames' = [frames EXCEPT ![d] = [f EXCEPT !.pc = "p_consider", !.p_now = t]]
            /\ UNCHANGED <<processed_entries, processed_bytes, throttler, progress_events>>
       [] f.pc = "p_consider" ->
            /\ throttler' = r.th
            /\ now' = now
            /\ frames' = [frames EXCEPT ![d] =
                            IF IsSome(r.snap) THEN [f EXCEPT !.pc = "p_push", !.snap = r.snap]
                            ELSE AfterProgress(f)]
            /\ UNCHANGED <<processed_entries, processed_bytes, progress_events>>
       [] OTHER ->
            /\ progress_events' = Append(progress_events, Unwrap(f.snap))
            /\ now' = now
            /\ frames' = [frames EXCEPT ![d] = AfterProgress([f EXCEPT !.snap = None])]
            /\ UNCHANGED <<processed_entries, processed_bytes, throttler>>
  /\ UNCHANGED <<callers, agg, cmd, probe, sink, roundtrip, world, opts, run, phase, first, summary, strategy, root_device,
                 seen_inodes, entries, errors, counted>>

\* the DirectoryEntry of a file child c of d, and of directory d itself
FileEntry(d, c, size) ==
  [path |-> normalize_path(Join(PathOf(d), c)),
   parent_path |-> Some(normalize_path(PathOf(d))),
   depth |-> frames[d].depth + 1,
   size_bytes |-> size, file_count |-> 0, dir_count |-> 0]

DirEntry(d) ==
  [path |-> normalize_path(PathOf(d)),
   parent_path |-> IF IsSome(PathParent(PathOf(d)))
                   THEN Some(normalize_path(Unwrap(PathParent(PathOf(d)))))
                   ELSE None,
   depth |-> frames[d].depth,
   size_bytes |-> frames[d].total_size,
   file_count |-> frames[d].file_count,
   dir_count |-> frames[d].dir_count]

\* TraversalContext::insert_entry: the map is keyed by PathBuf, whose equality
\* is by components
insert_entry(map, p, entry) == (p.comps :> entry) @@ map

\* the emission of a file entry (when within the depth limit) and of the
\* directory's own entry
InsertEntry(d) ==
  /\ phase = "traversing"
  /\ frames[d].pc \in {"emit_file", "emit_dir"}
  /\ LET f == frames[d] IN
     IF /\ strategy = "posix"
        /\ \/ f.pc = "emit_file" /\ WithinDepth(f.depth + 1) /\ SinkFails(Listing(d)[f.idx], "entry")
           \/ f.pc = "emit_dir" /\ SinkFails(d, "entry")
     THEN \* context.insert_entry(..)? returned the sink's error
          /\ frames' = AbortFrames(d)
          /\ UNCHANGED entries
     ELSE IF f.pc = "emit_file"
     THEN /\ entries' = IF WithinDepth(f.depth + 1)
                        THEN insert_entry(entries, Join(PathOf(d), Listing(d)[f.idx]),
                                          FileEntry(d, Listing(d)[f.idx], f.file_size))
                        ELSE entries
          /\ frames' = [frames EXCEPT ![d] = [f EXCEPT !.pc = "loop", !.idx = f.idx + 1]]
     ELSE /\ entries' = insert_entry(entries, PathOf(d), DirEntry(d))
          /\ frames' = [frames EXCEPT ![d] = [f EXCEPT !.pc = "p_entries", !.after = "ret"]]
  /\ UNCHANGED <<callers, agg, cmd, probe, sink, roundtrip, world, opts, run, phase, first, summary, now, strategy, root_device,
                 seen_inodes, errors, processed_entries, processed_bytes,
                 progress_events, throttler, counted>>


Last(sq) == sq[Len(sq)]

Range(fn) == {fn[k] : k \in DOMAIN fn}

\* a finalizer that never appends the forced snapshot
finalize_progressSkipsAppend(events, th, t, bytes, ents) == events

\* finalize_progress: the progress trace after the forced final snapshot
finalize_progress(events, th, t, bytes, ents) ==
  LET snapshot == Unwrap(force_emit(th, t, bytes, ents, elapsed_ms(t)).snap)
      should_append ==
        IF events = <<>> THEN TRUE
        ELSE \/ Last(events).processed_entries # snapshot.processed_entries
             \/ Last(events).processed_bytes # snapshot.processed_bytes
  IN IF should_append THEN Append(events, snapshot) ELSE events

\* what scan_summary returns when the traversal returned an error
ErrResult ==
  [ok |-> FALSE, root |-> RootPath, entries |-> {}, errors |-> <<>>,
   strategy |-> strategy, progress |-> <<>>,
   err |-> "Io"]   \* the variant of dua::Error: From<std::io::Error> gives Error::Io

\* scan_summary after the traversal returned: the `?` on its result,
\* finalize_progress, into_parts, the Summary.  The first scan of a tree is
\* followed by the legacy scan of the same tree.
FinishScan ==
  /\ phase = "traversing"
  /\ frames["root"].pc = "ret"
  /\ frames' = [frames EXCEPT !["root"].pc = "done"]
  /\ IF frames["root"].ok
     THEN \E t \in ClockReads :
          /\ now' = t
          /\ progress_events' = finalize_progress(progress_events, throttler, t,
                                                  processed_bytes, processed_entries)
          /\ throttler' = force_emit(throttler, t, processed_bytes, processed_entries,
                                     elapsed_ms(t)).th
          /\ summary' = Some([ok |-> TRUE, root |-> RootPath, entries |-> Range(entries),
                              errors |-> errors, strategy |-> strategy,
                              progress |-> progress_events', err |-> "none"])
     ELSE /\ summary' = Some(ErrResult)
          /\ UNCHANGED <<now, progress_events, throttler>>
  /\ IF run = 1
     THEN /\ run' = 2
          /\ first' = summary'
          /\ phase' = "idle"
     ELSE /\ phase' = "done"
          /\ UNCHANGED <<run, first>>
  /\ UNCHANGED <<callers, agg, cmd, probe, sink, roundtrip, world, opts, strategy, root_device, seen_inodes, entries, errors,
                 processed_entries, processed_bytes, counted>>

Next ==
  \/ StartScan
  \/ \E d \in AllDirs : Enter(d)
  \/ \E d \in AllDirs : SkipChild(d)
  \/ \E d \in AllDirs : VisitChild(d)
  \/ \E d \in AllDirs : EndLoop(d)
  \/ \E d \in AllDirs : Return(d)
  \/ \E d \in AllDirs : JoinChildren(d)
  \/ \E d \in AllDirs : RegisterProgress(d)
  \/ \E d \in AllDirs : InsertEntry(d)
  \/ FinishScan

Spec == Init /\ [][Next]_vars

\* the parity harness: the platform-selected scan of a tree, then the legacy
\* scan of the same tree
InitParity ==
  /\ \E sc \in Families : world = sc.world /\ opts = sc.opts
  /\ roundtrip = NoSnapshot
  /\ run = 1
  /\ phase = "idle"
  /\ first = None
  /\ summary = None
  /\ now = 0
  /\ NewContext
  /\ probe = NoProbe
  /\ cmd = NoCommand
  /\ agg = NoAggregate
  /\ callers = NoCalls
  /\ sink = NoSink

SpecParity == InitParity /\ [][Next]_vars


\* ------------------------------------------------------- the snapshot file
\* io/snapshot.rs: one flat schema of 14 nullable columns; a row is an entry
\* row (with the metadata repeated), an error row or a metadata-only row.

Null == None

\* create_entries_batch: one row per entry, metadata columns filled, error columns null
EntryRow(e, meta) ==
  [path |-> Some(e.path), parent_path |-> e.parent_path, depth |-> Some(e.depth),
   size_bytes |-> Some(e.size_bytes), file_count |-> Some(e.file_count),
   dir_count |-> Some(e.dir_count),
   meta_scan_root |-> Some(meta.scan_root), meta_started_at |-> Some(meta.started_at),
   meta_finished_at |-> Some(meta.finished_at), meta_size_basis |-> Some(meta.size_basis),
   meta_hardlink_policy |-> Some(meta.hardlink_policy),
   error_path |-> Null, error_code |-> Null, error_message |-> Null]

create_entries_batch(es, meta) == [i \in 1..Len(es) |-> EntryRow(es[i], meta)]

\* create_errors_batch: one row per error, entry and metadata columns null
ErrorRow(x) ==
  [path |-> Null, parent_path |-> Null, depth |-> Null, size_bytes |-> Null,
   file_count |-> Null, dir_count |-> Null,
   meta_scan_root |-> Null, meta_started_at |-> Null, meta_finished_at |-> Null,
   meta_size_basis |-> Null, meta_hardlink_policy |-> Null,
   error_path |-> Some(x.path), error_code |-> Some(x.code), error_message |-> Some(x.message)]

create_errors_batch(xs) == [i \in 1..Len(xs) |-> ErrorRow(xs[i])]

\* create_metadata_batch: a single row holding the metadata only
create_metadata_batch(meta) ==
  <<[path |-> Null, parent_path |-> Null, depth |-> Null, size_bytes |-> Null,
     file_count |-> Null, dir_count |-> Null,
     meta_scan_root |-> Some(meta.scan_root), meta_started_at |-> Some(meta.started_at),
     meta_finished_at |-> Some(meta.finished_at), meta_size_basis |-> Some(meta.size_basis),
     meta_hardlink_policy |-> Some(meta.hardlink_policy),
     error_path |-> Null, error_code |-> Null, error_message |-> Null]>>

\* write_snapshot: the rows of the file, in the order written
write_snapshot(meta, es, xs) ==
  (IF es # <<>> THEN create_entries_batch(es, meta) ELSE <<>>)
    \o (IF xs # <<>> THEN create_errors_batch(xs) ELSE <<>>)
    \o (IF es = <<>> /\ xs = <<>> THEN create_metadata_batch(meta) ELSE <<>>)

\* extract_metadata: from row 0 of a batch; an error when a column is null
extract_metadata(row) ==
  IF row.meta_scan_root = Null THEN [ok |-> FALSE, err |-> "Missing scan_root", meta |-> None]
  ELSE IF row.meta_started_at = Null THEN [ok |-> FALSE, err |-> "Missing started_at", meta |-> None]
  ELSE IF row.meta_finished_at = Null THEN [ok |-> FALSE, err |-> "Missing finished_at", meta |-> None]
  ELSE IF row.meta_size_basis = Null THEN [ok |-> FALSE, err |-> "Missing size_basis", meta |-> None]
  ELSE IF row.meta_hardlink_policy = Null
  THEN [ok |-> FALSE, err |-> "Missing hardlink_policy", meta |-> None]
  ELSE [ok |-> TRUE, err |-> "",
        meta |-> Some([scan_root |-> Unwrap(row.meta_scan_root),
                       started_at |-> Unwrap(row.meta_started_at),
                       finished_at |-> Unwrap(row.meta_finished_at),
                       size_basis |-> Unwrap(row.meta_size_basis),
                       hardlink_policy |-> Unwrap(row.meta_hardlink_policy),
                       excludes |-> <<>>])]

\* extract_entry
extract_entry(row) ==
  IF row.depth = Null \/ row.size_bytes = Null \/ row.file_count = Null \/ row.dir_count = Null
  THEN None
  ELSE Some([path |-> Unwrap(row.path), parent_path |-> row.parent_path,
             depth |-> Unwrap(row.depth), size_bytes |-> Unwrap(row.size_bytes),
             file_count |-> Unwrap(row.file_count), dir_count |-> Unwrap(row.dir_count)])

\* extract_error
extract_error(row) ==
  IF row.error_code = Null \/ row.error_message = Null THEN None
  ELSE Some([path |-> Unwrap(row.error_path), code |-> Unwrap(row.error_code),
             message |-> Unwrap(row.error_message)])

\* the row loop of read_snapshot: a row with error_path is an error row, a row
\* with a non-empty path is an entry row, any other row is passed over
RECURSIVE ReadRows(_, _)
ReadRows(rows, acc) ==
  IF rows = <<>> \/ ~acc.ok THEN acc
  ELSE LET row == Head(rows) IN
       IF row.error_path # Null
       THEN IF extract_error(row) = None
            THEN [acc EXCEPT !.ok = FALSE, !.err = "Missing error field"]
            ELSE ReadRows(Tail(rows),
                          [acc EXCEPT !.errors = Append(acc.errors, Unwrap(extract_error(row)))])
       ELSE IF row.path # Null /\ Unwrap(row.path) # ""
       THEN IF extract_entry(row) = None
            THEN [acc EXCEPT !.ok = FALSE, !.err = "Missing entry field"]
            ELSE ReadRows(Tail(rows),
                          [acc EXCEPT !.entries = Append(acc.entries, Unwrap(extract_entry(row)))])
       ELSE ReadRows(Tail(rows), acc)

\* read_snapshot: the metadata comes from the first row read
read_snapshot(rows) ==
  LET m == IF rows = <<>> THEN [ok |-> FALSE, err |-> "No metadata found", meta |-> None]
           ELSE extract_metadata(rows[1])
  IN IF ~m.ok THEN [ok |-> FALSE, err |-> m.err, meta |-> None, entries |-> <<>>, errors |-> <<>>]
     ELSE ReadRows(rows, [ok |-> TRUE, err |-> "", meta |-> m.meta,
                          entries |-> <<>>, errors |-> <<>>])

\* the arguments write_snapshot is called with
MetaPool ==
  {[scan_root |-> "/tmp/root", started_at |-> "t0", finished_at |-> "t1",
    size_basis |-> b, hardlink_policy |-> "dedupe", excludes |-> <<>>] :
      b \in {"logical", "physical"}}

EntryPool ==
  {[path |-> "/tmp/root", parent_path |-> Some("/tmp"), depth |-> 0,
    size_bytes |-> 12, file_count |-> 1, dir_count |-> 0],
   [path |-> "/tmp/root/a", parent_path |-> Some("/tmp/root"), depth |-> 1,
    size_bytes |-> 12, file_count |-> 0, dir_count |-> 0],
   [path |-> "/", parent_path |-> None, depth |-> 0,
    size_bytes |-> 0, file_count |-> 0, dir_count |-> 0]}

ErrorPool ==
  {[path |-> "/tmp/root", code |-> "EACCES", message |-> "PermissionDenied"],
   [path |-> "/tmp/root/sub", code |-> "ENOENT", message |-> "NotFound"]}

SeqsUpTo(S, n) == UNION {[1..k -> S] : k \in 0..n}

InitSnapshot ==
  /\ world = BaseWorld
  /\ opts = BaseOpts
  /\ run = 0
  /\ phase = "idle"
  /\ first = None
  /\ summary = None
  /\ now = 0
  /\ NewContext
  /\ probe = NoProbe
  /\ cmd = NoCommand
  /\ agg = NoAggregate
  /\ callers = NoCalls
  /\ sink = NoSink
  /\ \E m \in MetaPool, es \in SeqsUpTo(EntryPool, MaxRows), xs \in SeqsUpTo(ErrorPool, MaxRows) :
       roundtrip = [NoSnapshot EXCEPT !.meta = Some(m), !.entries = es, !.errors = xs]

\* write_snapshot(path, meta, entries, errors)
WriteSnapshot ==
  /\ roundtrip.state = "none"
  /\ IsSome(roundtrip.meta)
  /\ roundtrip' = [roundtrip EXCEPT
                     !.state = "written",
                     !.file = write_snapshot(Unwrap(roundtrip.meta), roundtrip.entries,
                                             roundtrip.errors)]
  /\ UNCHANGED <<callers, agg, cmd, probe, sink, world, opts, run, phase, first, summary, now, ctxVars>>

\* read_snapshot(path) on the file written
ReadSnapshot ==
  /\ roundtrip.state = "written"
  /\ roundtrip' = [roundtrip EXCEPT !.state = "read",
                                    !.result = Some(read_snapshot(roundtrip.file))]
  /\ UNCHANGED <<callers, agg, cmd, probe, sink, world, opts, run, phase, first, summary, now, ctxVars>>

NextSnapshot ==
  \/ WriteSnapshot
  \/ ReadSnapshot

SpecSnapshot == InitSnapshot /\ [][NextSnapshot]_vars

\* ------------------------------------------------------- the scan command
\* bin/dua.rs handle_scan: scan_summary, then write_snapshot of the Summary.

\* Path::to_string_lossy: the components joined by separators, the trailing
\* separator kept as spelled
RECURSIVE JoinComps(_)
JoinComps(cs) == IF cs = <<>> THEN "" ELSE "/" \o Head(cs) \o JoinComps(Tail(cs))

to_string_lossy(p) ==
  IF p.comps = <<>> THEN "/"
  ELSE IF p.trail THEN JoinComps(p.comps) \o "/" ELSE JoinComps(p.comps)

\* a DirectoryEntry / an ErrorItem with its paths as the strings they are
EntryStrings(e) ==
  [e EXCEPT !.path = to_string_lossy(e.path),
            !.parent_path = IF IsSome(e.parent_path)
                            THEN Some(to_string_lossy(Unwrap(e.parent_path))) ELSE None]

ErrorStrings(x) == [x EXCEPT !.path = to_string_lossy(x.path)]

\* into_values().collect(): the values of the map in one of its iteration orders
RECURSIVE into_values(_)
into_values(S) ==
  IF S = {} THEN <<>>
  ELSE LET e == CHOOSE x \in S : TRUE IN <<e>> \o into_values(S \ {e})

\* the SnapshotMeta handle_scan builds from the Summary
ScanMeta ==
  [scan_root |-> to_string_lossy(Unwrap(summary).root), started_at |-> "t0",
   finished_at |-> "t1", size_basis |-> opts.basis, hardlink_policy |-> "dedupe",
   excludes |-> <<>>]

\* handle_scan, the arm for an Err of scan_summary: the exit code by variant
error_exit_codeUnclassified(err) == 4
error_exit_code(err) ==
  CASE err = "InvalidInput" -> 2
    [] err = "PartialFailure" -> 3
    [] OTHER -> 4

\* handle_scan, its last expression: the exit code after the snapshot was saved
final_exit_code(xs) == IF xs = <<>> THEN 0 ELSE 3

\* handle_scan after scan_summary returned Ok: the metadata, write_snapshot
\* and the exit code (an Err of scan_summary ends the command with no
\* snapshot written)
SaveSnapshot ==
  /\ phase = "done"
  /\ run = 0
  /\ cmd.api \in {"none", "handle_scan"}
  /\ Unwrap(summary).ok
  /\ roundtrip.state = "none"
  /\ LET es == [i \in DOMAIN into_values(Unwrap(summary).entries) |->
                  EntryStrings(into_values(Unwrap(summary).entries)[i])]
         xs == [i \in DOMAIN Unwrap(summary).errors |-> ErrorStrings(Unwrap(summary).errors[i])]
     IN IF world.write_fail
        THEN /\ roundtrip' = [NoSnapshot EXCEPT !.state = "failed"]
             /\ cmd' = [cmd EXCEPT !.exit = Some(4)]
        ELSE /\ roundtrip' = [state |-> "written", meta |-> Some(ScanMeta), entries |-> es,
                              errors |-> xs, file |-> write_snapshot(ScanMeta, es, xs),
                              result |-> None, order |-> <<>>]
             /\ cmd' = [cmd EXCEPT !.exit = Some(final_exit_code(Unwrap(summary).errors))]
  /\ UNCHANGED <<callers, agg, probe, sink, world, opts, run, phase, first, summary, now, ctxVars>>

\* the scans the command is run on
InitCli ==
  /\ \E sc \in Families, o \in {None, Some("legacy")} :
       world = sc.world /\ opts = [sc.opts EXCEPT !.strategy_override = o]
  /\ roundtrip = NoSnapshot
  /\ run = 0
  /\ phase = "idle"
  /\ first = None
  /\ summary = None
  /\ now = 0
  /\ NewContext
  /\ probe = NoProbe
  /\ cmd = NoCommand
  /\ agg = NoAggregate
  /\ callers = NoCalls
  /\ sink = NoSink

NextCli ==
  \/ Next
  \/ SaveSnapshot
  \/ ReadSnapshot

SpecCli == InitCli /\ [][NextCli]_vars

\* ------------------------------------------------- the throttler on its own
\* ProgressThrottler driven call by call: every configuration, then calls of
\* consider at arbitrary later instants with arbitrary byte advances.

\* the number of consider calls made on one throttler
MaxCalls == 3

\* configured intervals (ms; 0 and 100 meet the floor) and byte triggers
\* (0 meets the floor, u64::MAX disables the trigger)
Intervals == {0, MIN_INTERVAL, 150, 200, 400}
Triggers == {0, DEFAULT_BYTE_TRIGGER, U64_MAX}

\* the time between two calls (ms) and the bytes processed between them
TimeSteps == {0, 50, 75, 100, 200}
ByteSteps == {0, MIN_BYTE_TRIGGER, DEFAULT_BYTE_TRIGGER}

\* ProgressThrottler::with_interval_and_trigger(interval, byte_trigger)
InitThrottler ==
  /\ world = BaseWorld
  /\ \E i \in Intervals, b \in Triggers :
       opts = [BaseOpts EXCEPT !.progress_interval = i, !.progress_byte_trigger = b]
  /\ roundtrip = NoSnapshot
  /\ run = 0
  /\ phase = "idle"
  /\ first = None
  /\ summary = None
  /\ now = 0
  /\ NewContext
  /\ probe = NoProbe
  /\ cmd = NoCommand
  /\ agg = NoAggregate
  /\ callers = NoCalls
  /\ sink = NoSink

\* one call throttler.consider(now, processed_bytes, processed_entries, timestamp_ms)
Consider ==
  /\ processed_entries < MaxCalls
  /\ \E dt \in TimeSteps, db \in ByteSteps :
       LET t == now + dt
           bytes == processed_bytes + db
           r == consider(throttler, t, bytes, processed_entries + 1, t)
       IN /\ now' = t
          /\ processed_bytes' = bytes
          /\ processed_entries' = processed_entries + 1
          /\ throttler' = r.th
          /\ probe' = [probe EXCEPT !.called = TRUE, !.before = Some(throttler), !.t = t,
                                     !.bytes = bytes, !.snap = r.snap]
          /\ progress_events' = IF IsSome(r.snap) THEN Append(progress_events, Unwrap(r.snap))
                                ELSE progress_events
  /\ UNCHANGED <<callers, agg, cmd, sink, roundtrip, world, opts, run, phase, first, summary, strategy, root_device,
                 seen_inodes, entries, errors, frames, counted>>

\* one call throttler.force_emit(now, processed_bytes, processed_entries, timestamp_ms)
ForceEmit ==
  /\ processed_entries < MaxCalls
  /\ \E dt \in TimeSteps, db \in ByteSteps :
       LET t == now + dt
           bytes == processed_bytes + db
           r == force_emit(throttler, t, bytes, processed_entries + 1, t)
       IN /\ now' = t
          /\ processed_bytes' = bytes
          /\ processed_entries' = processed_entries + 1
          /\ throttler' = r.th
          /\ probe' = [probe EXCEPT !.forced = Some([before |-> throttler, snap |-> r.snap])]
  /\ UNCHANGED <<callers, agg, cmd, sink, roundtrip, world, opts, run, phase, first, summary, strategy, root_device,
                 seen_inodes, entries, errors, progress_events, frames, counted>>

NextThrottler ==
  \/ Consider

SpecThrottler == InitThrottler /\ [][NextThrottler]_vars

\* the throttler driven by calls of consider and of force_emit in any order
NextFinal ==
  \/ Consider
  \/ ForceEmit

SpecFinal == InitThrottler /\ [][NextFinal]_vars

\* ------------------------------------------------ the throttler reconfigured
\* A throttler whose interval and byte trigger are replaced between the calls
\* of consider.

\* the number of set_interval calls made on one throttler
MaxSets == 2

\* one call throttler.set_interval(interval, byte_trigger)
SetInterval ==
  /\ probe.sets < MaxSets
  /\ \E i \in Intervals, b \in Triggers : throttler' = set_interval(throttler, i, b)
  /\ probe' = [probe EXCEPT !.sets = probe.sets + 1]
  /\ UNCHANGED <<callers, agg, cmd, sink, roundtrip, world, opts, run, phase, first, summary, now, strategy,
                 root_device, seen_inodes, entries, errors, processed_entries, processed_bytes,
                 progress_events, frames, counted>>

\* ProgressThrottler::with_interval_and_trigger with an interval and a byte
\* trigger below the floors or above them; set_interval brings in the others
InitReconfigure ==
  /\ InitThrottler
  /\ opts.progress_interval \in {0, 200}
  /\ opts.progress_byte_trigger \in {0, DEFAULT_BYTE_TRIGGER}

NextReconfigure ==
  \/ Consider
  \/ SetInterval

SpecReconfigure == InitReconfigure /\ [][NextReconfigure]_vars

\* ------------------------------------------- snapshots with disjoint row groups
\* The layout of the streaming sink: entry rows, error rows and one metadata
\* row in row groups of their own.

\* an entry row of the streaming layout: the entry columns only, the metadata
\* and error columns null (create_entries_batch(schema, entries) as the
\* streaming sink calls it)
StreamEntryRow(e) ==
  [path |-> Some(e.path), parent_path |-> e.parent_path, depth |-> Some(e.depth),
   size_bytes |-> Some(e.size_bytes), file_count |-> Some(e.file_count),
   dir_count |-> Some(e.dir_count),
   meta_scan_root |-> Null, meta_started_at |-> Null, meta_finished_at |-> Null,
   meta_size_basis |-> Null, meta_hardlink_policy |-> Null,
   error_path |-> Null, error_code |-> Null, error_message |-> Null]

stream_entries_batch(es) == [i \in 1..Len(es) |-> StreamEntryRow(es[i])]

\* the rows of one row group of a file holding meta, es and xs
GroupRows(kind, meta, es, xs) ==
  CASE kind = "entries" -> stream_entries_batch(es)
    [] kind = "errors" -> create_errors_batch(xs)
    [] kind = "metadata" -> create_metadata_batch(meta)

\* the orders in which the three kinds of row group can lie in a file
GroupOrders ==
  {o \in [1..3 -> {"entries", "errors", "metadata"}] : \A i, j \in 1..3 : i # j => o[i] # o[j]}

\* a snapshot file with its row groups in some order
LayOutSnapshot ==
  /\ roundtrip.state = "none"
  /\ IsSome(roundtrip.meta)
  /\ \E o \in GroupOrders :
       LET rows(k) == GroupRows(o[k], Unwrap(roundtrip.meta), roundtrip.entries, roundtrip.errors)
       IN roundtrip' = [roundtrip EXCEPT !.state = "written", !.order = o,
                                         !.file = rows(1) \o rows(2) \o rows(3)]
  /\ UNCHANGED <<callers, agg, cmd, probe, sink, world, opts, run, phase, first, summary, now, ctxVars>>

NextLayout ==
  \/ LayOutSnapshot
  \/ ReadSnapshot

SpecLayout == InitSnapshot /\ [][NextLayout]_vars

\* ---------------------------------------------------------------- the sinks
\* services/sink: ParquetStreamSink and MemorySink behind the ScanSink trait,
\* driven by any sequence of record_entry, record_error and set_metadata
\* calls and a final finish.  A write to the Parquet writer can fail.

\* the number of calls made on a sink before finish
MaxSinkCalls == 4

DEFAULT_BUFFER_CAPACITY == 4096

\* the metadata the sinks are given
SinkMeta ==
  [scan_root |-> "/tmp/root", started_at |-> "t0", finished_at |-> "t1",
   size_basis |-> "logical", hardlink_policy |-> "dedupe", excludes |-> <<>>]

\* ParquetStreamSink::try_new(path, buffer_capacity)
try_newWithMetadata(buffer_capacity) ==
  [NoSink EXCEPT !.kind = "parquet", !.writer = "open", !.metadata = Some(SinkMeta),
                 !.configured = buffer_capacity,
                 !.buffer_capacity =
                    Max(IF IsSome(buffer_capacity) THEN Unwrap(buffer_capacity)
                        ELSE DEFAULT_BUFFER_CAPACITY, 1)]
try_new(buffer_capacity) ==
  [NoSink EXCEPT !.kind = "parquet", !.writer = "open",
                 !.configured = buffer_capacity,
                 !.buffer_capacity =
                    Max(IF IsSome(buffer_capacity) THEN Unwrap(buffer_capacity)
                        ELSE DEFAULT_BUFFER_CAPACITY, 1)]

\* MemorySink::new
MemorySinkNew == [NoSink EXCEPT !.kind = "memory"]

\* writer.write(batch), accepted
Write(s, kind, rows, by) ==
  [s EXCEPT !.written = Append(s.written, [kind |-> kind, rows |-> rows, by |-> by])]

\* ParquetStreamSink::flush_entries; write_ok: create_entries_batch and
\* writer.write succeeded.  [ok, s]
flush_entriesDropsBuffer(s, write_ok, by) == [ok |-> TRUE, s |-> [s EXCEPT !.buffer = <<>>]]
flush_entries(s, write_ok, by) ==
  IF s.buffer = <<>> THEN [ok |-> TRUE, s |-> s]
  ELSE IF s.writer = "open"
  THEN IF write_ok
       THEN [ok |-> TRUE,
             s |-> [Write(s, "entries", stream_entries_batch(s.buffer), by) EXCEPT !.buffer = <<>>]]
       ELSE [ok |-> FALSE, s |-> s]
  ELSE [ok |-> FALSE, s |-> s]

\* u64::saturating_add(1)
SatIncStuck(n) == n
SatInc(n) == IF n = U64_MAX THEN n ELSE n + 1

\* ParquetStreamSink::record_entry
parquet_record_entryFlushesLate(s, entry, write_ok) ==
  LET pushed == [s EXCEPT !.entry_count = SatInc(s.entry_count),
                          !.buffer = Append(s.buffer, entry)]
  IN IF Len(pushed.buffer) > pushed.buffer_capacity
     THEN flush_entries(pushed, write_ok, "record_entry")
     ELSE [ok |-> TRUE, s |-> pushed]
parquet_record_entry(s, entry, write_ok) ==
  LET pushed == [s EXCEPT !.entry_count = SatInc(s.entry_count),
                          !.buffer = Append(s.buffer, entry)]
  IN IF Len(pushed.buffer) >= pushed.buffer_capacity
     THEN flush_entries(pushed, write_ok, "record_entry")
     ELSE [ok |-> TRUE, s |-> pushed]

\* MemorySink::record_entry: HashMap::insert replaces the entry of an equal path
memory_record_entryKeepsFirst(s, entry) ==
  [s EXCEPT !.entry_count = SatInc(s.entry_count),
            !.entries = s.entries @@ (entry.path :> entry)]
memory_record_entry(s, entry) ==
  [s EXCEPT !.entry_count = SatInc(s.entry_count),
            !.entries = (entry.path :> entry) @@ s.entries]

\* record_error of both sinks
sink_record_error(s, error) == [s EXCEPT !.errors = Append(s.errors, error)]

\* set_metadata of both sinks
sink_set_metadata(s, meta) == [s EXCEPT !.metadata = Some(meta)]

\* SinkFinish::new
SinkFinish(es, xs, n) == [entries |-> es, errors |-> xs, entry_count |-> n]

\* ParquetStreamSink::finish; fail names the first operation on the writer
\* that fails if it is reached ("none": all succeed).  [ok, s, out]
parquet_finish(s, fail) ==
  LET flushed == flush_entries(s, fail # "entries", "finish")
      taken == [flushed.s EXCEPT !.writer = "taken"]
      with_errors == IF taken.errors # <<>>
                     THEN Write(taken, "errors", create_errors_batch(taken.errors), "finish")
                     ELSE taken
      with_meta == Write(with_errors, "metadata",
                         create_metadata_batch(Unwrap(with_errors.metadata)), "finish")
      closed == [with_meta EXCEPT !.writer = "closed"]
  IN IF ~flushed.ok THEN [ok |-> FALSE, s |-> flushed.s, out |-> None]
     ELSE IF flushed.s.writer # "open" THEN [ok |-> FALSE, s |-> flushed.s, out |-> None]
     ELSE IF taken.errors # <<>> /\ fail = "errors" THEN [ok |-> FALSE, s |-> taken, out |-> None]
     ELSE IF with_errors.metadata = None THEN [ok |-> FALSE, s |-> with_errors, out |-> None]
     ELSE IF fail = "metadata" THEN [ok |-> FALSE, s |-> with_errors, out |-> None]
     ELSE IF fail = "close" THEN [ok |-> FALSE, s |-> with_meta, out |-> None]
     ELSE [ok |-> TRUE, s |-> closed,
           out |-> Some(SinkFinish(<<>>, closed.errors, closed.entry_count))]

\* the bytes of a path string
Bytes(path) ==
  CASE path = "/" -> <<47>>
    [] path = "/tmp/root" -> <<47, 116, 109, 112, 47, 114, 111, 111, 116>>
    [] path = "/tmp/root/a" -> <<47, 116, 109, 112, 47, 114, 111, 111, 116, 47, 97>>
    [] path = "/tmp/root-b" -> <<47, 116, 109, 112, 47, 114, 111, 111, 116, 45, 98>>

\* str::cmp: lexicographic on the bytes, a proper prefix first
RECURSIVE LexLess(_, _)
LexLess(a, b) ==
  IF b = <<>> THEN FALSE
  ELSE IF a = <<>> THEN TRUE
  ELSE IF Head(a) # Head(b) THEN Head(a) < Head(b)
  ELSE LexLess(Tail(a), Tail(b))

\* where sort_by(|a, b| a.path.cmp(&b.path)) puts e among the sorted: after
\* every element that is not greater (the sort is stable)
RECURSIVE InsertByPath(_, _)
InsertByPath(sorted, e) ==
  IF sorted = <<>> THEN <<e>>
  ELSE IF LexLess(Bytes(e.path), Bytes(Head(sorted).path)) THEN <<e>> \o sorted
  ELSE <<Head(sorted)>> \o InsertByPath(Tail(sorted), e)

RECURSIVE sort_by_path(_)
sort_by_path(sq) ==
  IF sq = <<>> THEN <<>>
  ELSE InsertByPath(sort_by_path(SubSeq(sq, 1, Len(sq) - 1)), sq[Len(sq)])

\* MemorySink::finish
memory_finish(s) ==
  [ok |-> TRUE, s |-> s,
   out |-> Some(SinkFinish(sort_by_path(into_values(Range(s.entries))), s.errors, s.entry_count))]

\* what the sinks are fed
SinkEntryPool ==
  {[path |-> "/tmp/root", parent_path |-> Some("/tmp"), depth |-> 0,
    size_bytes |-> 12, file_count |-> 1, dir_count |-> 0],
   [path |-> "/tmp/root/a", parent_path |-> Some("/tmp/root"), depth |-> 1,
    size_bytes |-> 12, file_count |-> 0, dir_count |-> 0],
   [path |-> "/tmp/root/a", parent_path |-> Some("/tmp/root"), depth |-> 1,
    size_bytes |-> 0, file_count |-> 0, dir_count |-> 0],
   [path |-> "/tmp/root-b", parent_path |-> Some("/tmp"), depth |-> 1,
    size_bytes |-> 5, file_count |-> 0, dir_count |-> 0]}

\* the buffer capacities a streaming sink is constructed with
Capacities == {None, Some(0), Some(2)}

InitSink ==
  /\ world = BaseWorld
  /\ opts = BaseOpts
  /\ roundtrip = NoSnapshot
  /\ run = 0
  /\ phase = "idle"
  /\ first = None
  /\ summary = None
  /\ now = 0
  /\ NewContext
  /\ probe = NoProbe
  /\ cmd = NoCommand
  /\ agg = NoAggregate
  /\ callers = NoCalls
  /\ sink \in {try_new(c) : c \in Capacities} \cup {MemorySinkNew}

SinkOpen == sink.finished = None /\ Len(sink.calls) < MaxSinkCalls

Called(s, op, arg, ok) == [s EXCEPT !.calls = Append(s.calls, [op |-> op, arg |-> arg, ok |-> ok])]

\* sink.record_entry(entry)
RecordEntry ==
  /\ SinkOpen
  /\ \E e \in SinkEntryPool, write_ok \in BOOLEAN :
       IF sink.kind = "parquet"
       THEN LET r == parquet_record_entry(sink, e, write_ok) IN
            \* the outcome of the write matters only when a flush is due
            /\ write_ok \/ Len(sink.buffer) + 1 >= sink.buffer_capacity
            /\ sink' = Called(r.s, "record_entry", e, r.ok)
       ELSE /\ write_ok
            /\ sink' = Called(memory_record_entry(sink, e), "record_entry", e, TRUE)
  /\ UNCHANGED <<callers, agg, cmd, probe, roundtrip, world, opts, run, phase, first, summary, now, ctxVars>>

\* sink.record_error(error)
RecordError ==
  /\ SinkOpen
  /\ \E x \in ErrorPool : sink' = Called(sink_record_error(sink, x), "record_error", x, TRUE)
  /\ UNCHANGED <<callers, agg, cmd, probe, roundtrip, world, opts, run, phase, first, summary, now, ctxVars>>

\* sink.set_metadata(meta)
SetMetadata ==
  /\ SinkOpen
  /\ sink' = Called(sink_set_metadata(sink, SinkMeta), "set_metadata", SinkMeta, TRUE)
  /\ UNCHANGED <<callers, agg, cmd, probe, roundtrip, world, opts, run, phase, first, summary, now, ctxVars>>

\* sink.finish(): it consumes the sink
Finish ==
  /\ sink.finished = None
  /\ \E fail \in {"none", "entries", "errors", "metadata", "close"} :
       LET r == IF sink.kind = "parquet" THEN parquet_finish(sink, fail) ELSE memory_finish(sink)
       IN /\ sink.kind = "memory" => fail = "none"
          /\ sink' = [Called(r.s, "finish", <<>>, r.ok) EXCEPT
                        !.finished = Some([ok |-> r.ok, out |-> r.out])]
  /\ UNCHANGED <<callers, agg, cmd, probe, roundtrip, world, opts, run, phase, first, summary, now, ctxVars>>

NextSink ==
  \/ RecordEntry
  \/ RecordError
  \/ SetMetadata
  \/ Finish

SpecSink == InitSink /\ [][NextSink]_vars

\* ------------------------------------------- the traversal on a worker pool
\* The scans of the wide tree on a pool of bounded width, with the failures
\* that make traverse_directory_fd return early: a listing that cannot be
\* read and a sink that returns an error.

\* the widths of the worker pool
PoolWidths == {1, 2}

\* directories whose listing fails after they were opened
ListFaults == {<<"root", "list">>, <<"deep", "list">>, <<"w2", "list">>}

\* the entries whose recording fails in the sink
SinkEntryFaults == {<<n, "entry">> : n \in {"root", "sub", "a", "c", "w2"}}

\* failures met by the traversal whose recording fails in the sink
SinkErrorFaults == {<<"w1", "open">>, <<"c", "stat">>, <<"a", "entry">>, <<"root", "stat">>}

WorkerScenarios ==
  {[world |-> [BaseWorld EXCEPT !.wide = TRUE, !.pool = w],
    opts |-> [BaseOpts EXCEPT !.strategy_override = o]] :
      w \in PoolWidths, o \in {None, Some("legacy")}}
  \cup {[world |-> [BaseWorld EXCEPT !.wide = TRUE, !.pool = w, !.fault = Some(f)],
         opts |-> BaseOpts] : w \in PoolWidths, f \in ListFaults}
  \cup {[world |-> [BaseWorld EXCEPT !.wide = TRUE, !.pool = w, !.sink_fail = Some(x)],
         opts |-> BaseOpts] : w \in PoolWidths, x \in SinkEntryFaults}
  \cup {[world |-> [BaseWorld EXCEPT !.wide = TRUE, !.pool = w, !.fault = Some(f),
                                     !.sink_fail = Some(<<f[1], "error">>)],
         opts |-> BaseOpts] : w \in PoolWidths, f \in SinkErrorFaults}

InitWorkers ==
  /\ \E sc \in WorkerScenarios : world = sc.world /\ opts = sc.opts
  /\ roundtrip = NoSnapshot
  /\ run = 0
  /\ phase = "idle"
  /\ first = None
  /\ summary = None
  /\ now = 0
  /\ NewContext
  /\ probe = NoProbe
  /\ cmd = NoCommand
  /\ agg = NoAggregate
  /\ callers = NoCalls
  /\ sink = NoSink

SpecWorkers == InitWorkers /\ [][Next]_vars

\* ------------------------------------------- the scan command and its exit code
\* bin/dua.rs handle_scan from its arguments to its exit code, and the library
\* entry points scan_summary and scan_to_snapshot from the check of the root.

\* ScanOptions::default()
DefaultOptions ==
  [basis |-> "physical", max_depth |-> None, hardlink_policy |-> "dedupe",
   follow_symlinks |-> FALSE, cross_filesystem |-> FALSE, strategy_override |-> None,
   progress_interval |-> 2000, progress_byte_trigger |-> DEFAULT_BYTE_TRIGGER]

\* StrategyKind::from_label (labels are given in lower case)
from_label(label) ==
  CASE label = "legacy" -> Some("legacy")
    [] label \in {"windows", "ntfs"} -> Some("windows")
    [] label \in {"posix", "unix"} -> Some("posix")
    [] OTHER -> None

\* handle_scan, the validation of its arguments: the message of the first
\* invalid one, None when all are accepted
invalid_argument(a) ==
  IF a.snapshot = None THEN Some("--snapshot is required")
  ELSE IF a.basis \notin {"physical", "logical"} THEN Some("Invalid basis")
  ELSE IF IsSome(a.strategy_override) /\ from_label(Unwrap(a.strategy_override)) = None
  THEN Some("unknown strategy")
  ELSE None

\* handle_scan, the ScanOptions built from accepted arguments
scan_options(a) ==
  [DefaultOptions EXCEPT
     !.basis = a.basis,
     !.max_depth = a.max_depth,
     !.strategy_override =
        IF IsSome(a.strategy_override) THEN from_label(Unwrap(a.strategy_override))
        ELSE IF a.legacy_traversal THEN Some("legacy") ELSE None,
     !.progress_interval =
        IF IsSome(a.progress_interval_secs) THEN Unwrap(a.progress_interval_secs) * 1000
        ELSE DefaultOptions.progress_interval,
     !.progress_byte_trigger =
        IF IsSome(a.progress_interval_secs) THEN U64_MAX
        ELSE DefaultOptions.progress_byte_trigger]

\* scan_summary / scan_to_snapshot, the two checks of the root: Path::exists
\* is false when the path's metadata cannot be read, Path::is_dir is false
\* for a file.  The variant of the error returned, None when the root passes
check_rootAcceptsFile(kind, stat_fails) ==
  IF kind = "missing" \/ stat_fails THEN Some("InvalidInput") ELSE None
check_root(kind, stat_fails) ==
  IF kind = "missing" \/ stat_fails THEN Some("InvalidInput")
  ELSE IF kind # "dir" THEN Some("InvalidInput")
  ELSE None

\* the arguments handle_scan is given
DefaultArgs ==
  [snapshot |-> Some("out.parquet"), basis |-> "physical", max_depth |-> None,
   strategy_override |-> None, legacy_traversal |-> FALSE, progress_interval_secs |-> None]

ArgsPool ==
  {[DefaultArgs EXCEPT !.snapshot = s, !.basis = b, !.strategy_override = o,
                       !.legacy_traversal = l] :
      s \in {None, Some("out.parquet")}, b \in {"physical", "logical", "bogus"},
      o \in {None, Some("unix"), Some("bogus")}, l \in BOOLEAN}
  \cup {[DefaultArgs EXCEPT !.progress_interval_secs = Some(1), !.max_depth = Some(1)]}

\* the roots the command is run on: a directory, a file, nothing; a root
\* whose metadata cannot be read; trees with an unreadable child, with a
\* directory that cannot be listed, with a root that cannot be opened; a
\* snapshot path that cannot be written
CommandWorlds ==
  {[BaseWorld EXCEPT !.root_kind = k, !.write_fail = w] :
      k \in {"dir", "file", "missing"}, w \in BOOLEAN}
  \cup {[BaseWorld EXCEPT !.fault = Some(f), !.write_fail = w] :
          f \in {<<"root", "stat">>, <<"a", "stat">>, <<"sub", "list">>, <<"root", "open">>},
          w \in BOOLEAN}

InitCommand ==
  /\ \/ /\ world = BaseWorld
        /\ \E a \in ArgsPool : cmd = [api |-> "handle_scan", args |-> Some(a), exit |-> None]
        /\ phase = "args"
     \/ /\ world \in CommandWorlds
        /\ \E l \in BOOLEAN :
             cmd = [api |-> "handle_scan",
                    args |-> Some([DefaultArgs EXCEPT !.legacy_traversal = l]), exit |-> None]
        /\ phase = "args"
     \/ /\ world \in CommandWorlds
        /\ \E api \in {"scan_summary", "scan_to_snapshot"} :
             cmd = [api |-> api, args |-> None, exit |-> None]
        /\ phase = "check"
  /\ opts = DefaultOptions
  /\ agg = NoAggregate
  /\ callers = NoCalls
  /\ roundtrip = NoSnapshot
  /\ run = 0
  /\ first = None
  /\ summary = None
  /\ now = 0
  /\ NewContext
  /\ probe = NoProbe
  /\ sink = NoSink

\* handle_scan up to the call of scan_summary: an invalid argument ends the
\* command with exit code 2
ParseScanArgs ==
  /\ phase = "args"
  /\ LET a == Unwrap(cmd.args) IN
     IF IsSome(invalid_argument(a))
     THEN /\ cmd' = [cmd EXCEPT !.exit = Some(2)]
          /\ phase' = "exited"
          /\ UNCHANGED opts
     ELSE /\ opts' = scan_options(a)
          /\ phase' = "check"
          /\ UNCHANGED cmd
  /\ UNCHANGED <<callers, agg, probe, sink, roundtrip, world, run, first, summary, now, ctxVars>>

\* scan_summary / scan_to_snapshot up to the construction of the context: the
\* checks of the root and, for scan_to_snapshot, ParquetStreamSink::try_new
CheckRoot ==
  /\ phase = "check"
  /\ LET rejected == check_root(world.root_kind, Fault("root", "stat")) IN
     IF IsSome(rejected)
     THEN /\ summary' = Some([ErrResult EXCEPT !.err = Unwrap(rejected)])
          /\ phase' = "done"
          /\ UNCHANGED sink
     ELSE IF cmd.api = "scan_to_snapshot" /\ world.write_fail
     THEN /\ summary' = Some(ErrResult)
          /\ phase' = "done"
          /\ UNCHANGED sink
     ELSE /\ sink' = IF cmd.api = "scan_to_snapshot" THEN try_new(None) ELSE sink
          /\ phase' = "idle"
          /\ UNCHANGED summary
  /\ UNCHANGED <<callers, agg, cmd, probe, roundtrip, world, opts, run, first, now, ctxVars>>

\* handle_scan, the arm for an Err of scan_summary
ExitOnError ==
  /\ phase = "done"
  /\ cmd.api = "handle_scan"
  /\ cmd.exit = None
  /\ ~Unwrap(summary).ok
  /\ cmd' = [cmd EXCEPT !.exit = Some(error_exit_code(Unwrap(summary).err))]
  /\ UNCHANGED <<callers, agg, probe, sink, roundtrip, world, opts, run, phase, first, summary, now, ctxVars>>

NextCommand ==
  \/ ParseScanArgs
  \/ CheckRoot
  \/ Next
  \/ SaveSnapshot
  \/ ExitOnError

SpecCommand == InitCommand /\ [][NextCommand]_vars

\* -------------------------------------------------------------- aggregation
\* services/aggregate.rs: sort_and_limit on any list of entries, and shards
\* built by absorb_entry and folded by consolidate_shards.

\* the length of the lists sort_and_limit is given
MaxEntries == 3

\* the number of absorb_entry calls made on the shards
MaxAbsorb == 3

\* the key sort_and_limit compares
SortKey(e, sort_by) ==
  CASE sort_by = "size" -> e.size_bytes
    [] sort_by = "files" -> e.file_count
    [] OTHER -> e.dir_count

\* where the stable sort_by(|a, b| b.key.cmp(&a.key)) puts e among the
\* elements before it: after every element whose key is not smaller
RECURSIVE InsertByKey(_, _, _)
InsertByKey(sorted, e, sort_by) ==
  IF sorted = <<>> THEN <<e>>
  ELSE IF SortKey(Head(sorted), sort_by) < SortKey(e, sort_by) THEN <<e>> \o sorted
  ELSE <<Head(sorted)>> \o InsertByKey(Tail(sorted), e, sort_by)

RECURSIVE sort_by_key(_, _)
sort_by_key(sq, sort_by) ==
  IF sq = <<>> THEN <<>>
  ELSE InsertByKey(sort_by_key(SubSeq(sq, 1, Len(sq) - 1), sort_by), sq[Len(sq)], sort_by)

\* Vec::truncate(k)
truncate(sq, k) == IF k < Len(sq) THEN SubSeq(sq, 1, k) ELSE sq

\* sort_and_limit(entries, sort_by, top_k)
sort_and_limitTruncatesFirst(es, sort_by, top_k) ==
  sort_by_key(IF IsSome(top_k) THEN truncate(es, Unwrap(top_k)) ELSE es, sort_by)
sort_and_limit(es, sort_by, top_k) ==
  LET sorted == sort_by_key(es, sort_by)
  IN IF IsSome(top_k) THEN truncate(sorted, Unwrap(top_k)) ELSE sorted

\* AggregateTotals::record_file / record_directory
record_file(t, size_bytes) ==
  [t EXCEPT !.size_bytes = t.size_bytes + size_bytes, !.files = t.files + 1]
record_directory(t, size_bytes) ==
  [t EXCEPT !.size_bytes = t.size_bytes + size_bytes, !.directories = t.directories + 1]

\* AggregateTotals::merge
merge(t, other) ==
  [size_bytes |-> t.size_bytes + other.size_bytes,
   files |-> t.files + other.files,
   directories |-> t.directories + other.directories]

\* DirectoryShard::absorb_entry: HashMap::insert replaces the entry of an
\* equal path
absorb_entry(shard, entry, kind) ==
  [totals |-> IF kind = "File" THEN record_file(shard.totals, entry.size_bytes)
              ELSE record_directory(shard.totals, entry.size_bytes),
   entries |-> (entry.path :> entry) @@ shard.entries]

\* DirectoryShard::merge_in_place: the entries of other replace those of
\* equal paths
merge_in_place(shard, other) ==
  [totals |-> merge(shard.totals, other.totals),
   entries |-> other.entries @@ shard.entries]

\* DirectoryShard::into_parts
shard_into_parts(shard) ==
  [entries |-> into_values(Range(shard.entries)), totals |-> shard.totals]

\* consolidate_shards(shards)
RECURSIVE FoldShards(_, _)
FoldShards(acc, shards) ==
  IF shards = <<>> THEN acc
  ELSE FoldShards(merge_in_place(acc, Head(shards)), Tail(shards))

consolidate_shards(shards) == shard_into_parts(FoldShards(NoShard, shards))

\* the entries the functions are given: equal keys under every sort field,
\* a path absorbed as a file and again with another size
AggregatePool ==
  {[path |-> "a", parent_path |-> None, depth |-> 0,
    size_bytes |-> 100, file_count |-> 1, dir_count |-> 0],
   [path |-> "b", parent_path |-> None, depth |-> 0,
    size_bytes |-> 500, file_count |-> 1, dir_count |-> 2],
   [path |-> "c", parent_path |-> None, depth |-> 0,
    size_bytes |-> 100, file_count |-> 3, dir_count |-> 2],
   [path |-> "a", parent_path |-> None, depth |-> 0,
    size_bytes |-> 300, file_count |-> 1, dir_count |-> 0]}

InitAggregate ==
  /\ world = BaseWorld
  /\ opts = BaseOpts
  /\ roundtrip = NoSnapshot
  /\ run = 0
  /\ phase = "idle"
  /\ first = None
  /\ summary = None
  /\ now = 0
  /\ NewContext
  /\ probe = NoProbe
  /\ cmd = NoCommand
  /\ agg = NoAggregate
  /\ callers = NoCalls
  /\ sink = NoSink

\* one call sort_and_limit(entries, sort_by, top_k)
SortAndLimit ==
  /\ agg = NoAggregate
  /\ \E es \in SeqsUpTo(AggregatePool, MaxEntries), by \in {"size", "files", "dirs"},
        k \in {None} \cup {Some(n) : n \in 0..(MaxEntries + 1)} :
       agg' = [agg EXCEPT !.op = "sort_and_limit", !.input = es, !.sort_by = by, !.top_k = k,
                          !.result = sort_and_limit(es, by, k)]
  /\ UNCHANGED <<callers, cmd, probe, sink, roundtrip, world, opts, run, phase, first, summary, now, ctxVars>>

\* one call shard.absorb_entry(entry, kind) on one of the shards
AbsorbEntry ==
  /\ agg.op \in {"none", "absorb_entry"}
  /\ agg.absorbed < MaxAbsorb
  /\ \E i \in DOMAIN agg.shards, e \in AggregatePool, kind \in {"File", "Directory"} :
       agg' = [agg EXCEPT !.op = "absorb_entry", !.absorbed = agg.absorbed + 1,
                          !.shards[i] = absorb_entry(agg.shards[i], e, kind)]
  /\ UNCHANGED <<callers, cmd, probe, sink, roundtrip, world, opts, run, phase, first, summary, now, ctxVars>>

\* consolidate_shards on the shards built, and on the same shards in the
\* other order
Consolidate ==
  /\ agg.op = "absorb_entry"
  /\ agg' = [agg EXCEPT !.op = "consolidate_shards",
                        !.result = consolidate_shards(agg.shards),
                        !.swapped = consolidate_shards(<<agg.shards[2], agg.shards[1]>>)]
  /\ UNCHANGED <<callers, cmd, probe, sink, roundtrip, world, opts, run, phase, first, summary, now, ctxVars>>

NextAggregate ==
  \/ SortAndLimit
  \/ AbsorbEntry
  \/ Consolidate

SpecAggregate == InitAggregate /\ [][NextAggregate]_vars

\* ------------------------------------------------------ the root-device cell
\* TraversalContext::root_device, a Mutex<Option<u64>>, under concurrent calls
\* of set_root_device_if_absent with any device ids.

\* the device ids the callers pass
DeviceIds == {1, 2, 3}

InitRootDevice ==
  /\ world = BaseWorld
  /\ \E x \in BOOLEAN : opts = [BaseOpts EXCEPT !.cross_filesystem = x]
  /\ roundtrip = NoSnapshot
  /\ run = 0
  /\ phase = "idle"
  /\ first = None
  /\ summary = None
  /\ now = 0
  /\ NewContext
  /\ probe = NoProbe
  /\ cmd = NoCommand
  /\ agg = NoAggregate
  /\ callers = NoCalls
  /\ sink = NoSink

\* a thread calls set_root_device_if_absent(device): it returns at once when
\* cross_filesystem is set, else it goes on to lock the mutex
BeginSet(w) ==
  /\ callers.pc[w] = "idle"
  /\ \E dev \in DeviceIds :
       callers' = [callers EXCEPT !.device[w] = dev,
                            !.pc[w] = IF opts.cross_filesystem THEN "done" ELSE "lock"]
  /\ UNCHANGED <<agg, cmd, probe, sink, roundtrip, world, opts, run, phase, first, summary, now,
                 ctxVars>>

\* self.root_device.lock(): the thread waits until the mutex is free
LockCell(w) ==
  /\ callers.pc[w] = "lock"
  /\ callers.holder = None
  /\ callers' = [callers EXCEPT !.holder = Some(w), !.pc[w] = "locked"]
  /\ UNCHANGED <<agg, cmd, probe, sink, roundtrip, world, opts, run, phase, first, summary, now,
                 ctxVars>>

\* under the guard: if guard.is_none() { *guard = Some(device) }
StoreIfAbsent(w) ==
  /\ callers.pc[w] = "locked"
  /\ root_device' = set_root_device_if_absent(root_device, callers.device[w])
  /\ callers' = [callers EXCEPT !.pc[w] = "unlock",
                          !.writes = IF root_device' # root_device
                                     THEN Append(callers.writes, Unwrap(root_device'))
                                     ELSE callers.writes]
  /\ UNCHANGED <<agg, cmd, probe, sink, roundtrip, world, opts, run, phase, first, summary, now,
                 strategy, seen_inodes, entries, errors, processed_entries, processed_bytes,
                 progress_events, throttler, frames, counted>>

\* the guard is dropped when the function returns
UnlockCell(w) ==
  /\ callers.pc[w] = "unlock"
  /\ callers' = [callers EXCEPT !.holder = None, !.pc[w] = "done"]
  /\ UNCHANGED <<agg, cmd, probe, sink, roundtrip, world, opts, run, phase, first, summary, now,
                 ctxVars>>

NextRootDevice ==
  \/ \E w \in Callers : BeginSet(w)
  \/ \E w \in Callers : LockCell(w)
  \/ \E w \in Callers : StoreIfAbsent(w)
  \/ \E w \in Callers : UnlockCell(w)

SpecRootDevice == InitRootDevice /\ [][NextRootDevice]_vars

\* ------------------------------------------------------------- record_error
\* TraversalContext::record_error called any number of times, with any path
\* and any io::ErrorKind, on a context that a scan has already filled.

MaxErrors == 3

\* the kinds of io::Error the calls carry: the two the match names and two of
\* the kinds that fall to its wildcard arm
ErrorKinds == {"NotFound", "PermissionDenied", "Other", "InvalidData"}

\* record_error: errors.lock().unwrap().push(ErrorItem { .. })
record_error(errs, p, kind) == Append(errs, ErrorItemOf(p, kind))

\* a context before the first call: fresh, or holding one file entry, its
\* FileId and its progress counts
InitRecordError ==
  /\ world = BaseWorld
  /\ opts = BaseOpts
  /\ roundtrip = NoSnapshot
  /\ run = 0
  /\ phase = "traversing"
  /\ first = None
  /\ summary = None
  /\ now = 0
  /\ strategy = "legacy"
  /\ root_device = None
  /\ errors = <<>>
  /\ progress_events = <<>>
  /\ throttler = NewThrottler(opts.progress_interval, opts.progress_byte_trigger)
  /\ frames = [d \in AllDirs |-> NewFrame]
  /\ counted = <<>>
  /\ \E filled \in BOOLEAN :
       /\ entries = IF filled
                    THEN insert_entry(<<>>, Join(RootPath, "f"),
                                      [path |-> Join(RootPath, "f"), parent_path |-> Some(RootPath),
                                       depth |-> 1, size_bytes |-> 100, file_count |-> 0,
                                       dir_count |-> 0])
                    ELSE <<>>
       /\ seen_inodes = IF filled THEN {<<1, 11>>} ELSE {}
       /\ processed_entries = IF filled THEN 1 ELSE 0
       /\ processed_bytes = IF filled THEN 100 ELSE 0
  /\ probe = NoProbe
  /\ cmd = NoCommand
  /\ agg = NoAggregate
  /\ callers = NoCalls
  /\ sink = NoSink

\* one call of context.record_error(path, &error)
ContextRecordError ==
  /\ Len(errors) < MaxErrors
  /\ \E p \in {RootPath, Join(RootPath, "a")}, kind \in ErrorKinds :
       errors' = record_error(errors, p, kind)
  /\ UNCHANGED <<callers, agg, cmd, probe, sink, roundtrip, world, opts, run, phase, first, summary, now,
                 strategy, root_device, seen_inodes, entries, processed_entries, processed_bytes,
                 progress_events, throttler, frames, counted>>

NextRecordError == ContextRecordError

SpecRecordError == InitRecordError /\ [][NextRecordError]_vars

\* ------------------------------------------------------------------ claims

\* a single scan has returned / the second scan of a parity pair has returned
ScanDone == phase = "done" /\ run = 0
ParityDone == phase = "done" /\ run = 2

RECURSIVE SumFn(_, _)
SumFn(fn, S) ==
  IF S = {} THEN 0
  ELSE LET x == CHOOSE y \in S : TRUE IN fn[x] + SumFn(fn, S \ {x})

\* the emitted entries of a result that are directories of the tree
DirEntriesOf(res) == {e \in res.entries : \E d \in AllDirs : e.path = normalize_path(PathOf(d))}

\* C1: in every scan, with workers registering progress concurrently or not,
\* the progress trace returned with the Summary is monotone: each snapshot's
\* processed_entries and processed_bytes are at least those of the one before.
C1_ProgressTraceMonotone ==
  (ScanDone /\ Unwrap(summary).ok) =>
    LET p == Unwrap(summary).progress IN
    \A i \in 1..(Len(p) - 1) :
      /\ p[i + 1].processed_entries >= p[i].processed_entries
      /\ p[i + 1].processed_bytes >= p[i].processed_bytes

\* C2: after every scan the progress trace holds exactly one snapshot whose
\* estimated_completion_ratio is 1.0, and it is the last of the trace.
C2_ExactlyOneFinalSnapshotLast ==
  (ScanDone /\ Unwrap(summary).ok) =>
    LET p == Unwrap(summary).progress IN
    /\ Len(p) >= 1
    /\ p[Len(p)].estimated_completion_ratio = Some(1)
    /\ \A i \in 1..(Len(p) - 1) : p[i].estimated_completion_ratio # Some(1)

\* the files for which should_count_file has been called with this FileId
CallsFor(id) == {f \in DOMAIN counted : file_id_from_metadata(f) = Some(id)}

FileIds == {Unwrap(file_id_from_metadata(f)) : f \in Files}

\* C3: under hardlink policy dedupe, in every interleaving, among the calls of
\* should_count_file for one FileId exactly one returned true and the others
\* false, so the file's bytes are attributed at most once in the scan.
C3_DedupeCountsEachFileIdOnce ==
  opts.hardlink_policy = "dedupe" =>
    \A id \in FileIds :
      CallsFor(id) # {} =>
        /\ Cardinality({f \in CallsFor(id) : counted[f].res}) = 1
        /\ \A f \in CallsFor(id) : ~counted[f].res => counted[f].size = 0
        /\ id \in seen_inodes

\* C3 witness: two hardlinked names were both visited by the parallel
\* strategy under dedupe, one counted and one not
C3_Witness ==
  /\ ScanDone
  /\ strategy = "posix"
  /\ opts.hardlink_policy = "dedupe"
  /\ world.hl = "ab"
  /\ {"a", "b"} \subseteq DOMAIN counted
  /\ counted["a"].res # counted["b"].res

\* C4: at the end of a scan without depth limit, every emitted directory
\* entry's size_bytes is the sum of size_bytes over the emitted entries whose
\* parent_path is that directory's path.
C4_DirSizeIsSumOfEmittedChildren ==
  (ScanDone /\ Unwrap(summary).ok /\ opts.max_depth = None) =>
    LET res == Unwrap(summary) IN
    \A D \in DirEntriesOf(res) :
      LET kids == {e \in res.entries : e.parent_path = Some(D.path)}
      IN D.size_bytes = SumFn([e \in kids |-> e.size_bytes], kids)

\* C5: under max_depth = k no entry handed to the sink has depth above k.
C5_NoEntryBeyondMaxDepth ==
  IsSome(opts.max_depth) =>
    \A e \in Range(entries) : e.depth <= Unwrap(opts.max_depth)

\* C5 witness: a finished scan under a limit smaller than the tree's depth
\* that emitted entries, with files counted below the limit
C5_Witness ==
  /\ ScanDone
  /\ opts.max_depth = Some(1)
  /\ Cardinality(Range(entries)) >= 3
  /\ "b" \in DOMAIN counted


\* the directory of the tree an emitted directory entry stands for
DirOf(e) == CHOOSE d \in AllDirs : e.path = normalize_path(PathOf(d))

\* the size the scan attributed to a file (0 when it never counted it)
Attributed(f) == IF f \in DOMAIN counted THEN counted[f].size ELSE 0

\* the files of d's subtree at depth at most k
FilesWithin(d, k) == {f \in Files : InSubtree(f, d) /\ NodeDepth(f) <= k}

\* C6 (as amended): with max_depth = k the traversal does not descend below
\* depth k: files are counted exactly when they lie at depth k + 1 or less, and
\* the size_bytes of every emitted directory is the total attributed to the
\* files of its subtree at depth k + 1 or less; deeper files are not counted.
C6_DirSizeCountsFilesDownToLimit ==
  (ScanDone /\ Unwrap(summary).ok /\ IsSome(opts.max_depth)) =>
    LET k == Unwrap(opts.max_depth)
        within == [f \in Files |-> Attributed(f)]
    IN /\ \A f \in DOMAIN counted : NodeDepth(f) <= k + 1
       /\ (world = BaseWorld) =>
            /\ DOMAIN counted = FilesWithin("root", k + 1)
            /\ \A f \in DOMAIN counted : counted[f].size = get_size(f)
       /\ \A D \in DirEntriesOf(Unwrap(summary)) :
            D.size_bytes = SumFn(within, FilesWithin(DirOf(D), k + 1))

\* C6 witness: a scan limited to depth 1 emitted "sub" (depth 1) with the size
\* of its own file only, the file of "sub/deep" left uncounted
C6_Witness ==
  /\ ScanDone
  /\ opts.max_depth = Some(1)
  /\ \E D \in DirEntriesOf(Unwrap(summary)) :
       /\ DirOf(D) = "sub"
       /\ D.size_bytes = get_size("b")
  /\ "c" \notin DOMAIN counted

\* C6 as stated: with max_depth = k the size_bytes of every emitted directory
\* is the total of all files in its full subtree, those deeper than k included.
C6_DirSizeIsFullSubtree ==
  (ScanDone /\ Unwrap(summary).ok /\ IsSome(opts.max_depth)) =>
    \A D \in DirEntriesOf(Unwrap(summary)) :
      D.size_bytes = SumFn([f \in Files |-> get_size(f)],
                           {f \in Files : InSubtree(f, DirOf(D))})

Abs(x) == IF x >= 0 THEN x ELSE 0 - x

\* the size_bytes of the root entry of a result
RootTotal(res) ==
  LET roots == {e \in res.entries : e.path = normalize_path(RootPath)}
  IN IF roots = {} THEN 0 ELSE (CHOOSE e \in roots : TRUE).size_bytes

\* C7: for the same tree and options the optimized and the legacy traversal
\* emit the same paths, with identical file_count and dir_count per path and
\* size_bytes within max(1% of the legacy root total, 10 MiB) per path.
C7_StrategiesAgree ==
  (ParityDone /\ Unwrap(first).ok /\ Unwrap(summary).ok) =>
    LET optimized == Unwrap(first).entries
        legacy == Unwrap(summary).entries
        tolerance == Max(RootTotal(Unwrap(summary)) \div 100, TOLERANCE_FLOOR)
    IN /\ {e.path : e \in optimized} = {e.path : e \in legacy}
       /\ \A o \in optimized : \A l \in legacy :
            o.path = l.path =>
              /\ o.file_count = l.file_count
              /\ o.dir_count = l.dir_count
              /\ Abs(o.size_bytes - l.size_bytes) <= tolerance

\* the scan met a failure on a node other than the root
NonRootFault ==
  /\ IsSome(world.fault)
  /\ Unwrap(world.fault)[1] # "root"
  /\ Unwrap(world.fault)[2] \in {"stat", "open", "list"}

\* C8: a failure to stat, open or list an entry other than the root is
\* recovered locally in every strategy: one ErrorItem is recorded, the scan
\* returns a Summary, and every sibling is emitted with its complete total.
C8_NonRootFailureRecoveredLocally ==
  (ScanDone /\ NonRootFault) =>
    LET n == Unwrap(world.fault)[1]
        res == Unwrap(summary)
    IN /\ res.ok
       /\ Len(res.errors) = 1
       /\ \A s \in Nodes \ {"root", n} :
            Parent(s) = Parent(n) =>
              \E e \in res.entries :
                /\ e.path = normalize_path(PathOf(s))
                /\ e.size_bytes = SumFn([f \in Files |-> get_size(f)],
                                        {f \in Files : InSubtree(f, s)})

\* the scan root could not be opened or listed
RootOpenFault == Fault("root", "open") \/ Fault("root", "list")

\* C9: if the root cannot be opened or listed, every strategy records one
\* ErrorItem at the root and returns a zero total as a success, so the scan
\* returns a Summary holding that error.
C9_RootFailureRecordedAndZero ==
  (ScanDone /\ RootOpenFault) =>
    /\ Unwrap(summary).ok
    /\ frames["root"].ok
    /\ frames["root"].val = 0
    /\ Len(Unwrap(summary).errors) = 1
    /\ Unwrap(summary).errors[1].path = RootPath


\* the number of places of a sequence holding x
Occurrences(sq, x) == Cardinality({i \in DOMAIN sq : sq[i] = x})

\* the two sequences hold the same elements the same number of times
SameUpToOrder(sa, sb) ==
  /\ Len(sa) = Len(sb)
  /\ \A i \in DOMAIN sa : Occurrences(sa, sa[i]) = Occurrences(sb, sa[i])

\* C10: for every metadata record, list of entries and list of errors, empty
\* lists included, read_snapshot of the file written by write_snapshot
\* succeeds and returns the same metadata, the same entries up to order and
\* the same errors in the same order.
C10_SnapshotRoundTrip ==
  roundtrip.state = "read" =>
    LET got == Unwrap(roundtrip.result) IN
    /\ got.ok
    /\ got.meta = roundtrip.meta
    /\ SameUpToOrder(got.entries, roundtrip.entries)
    /\ got.errors = roundtrip.errors

\* C11: whenever a scan completes with a non-empty error list, the snapshot
\* the scan command writes is read back successfully by read_snapshot, which
\* returns the scan's metadata, its entries and its errors.
C11_PartialFailureSnapshotReadable ==
  (ScanDone /\ roundtrip.state = "read" /\ Unwrap(summary).errors # <<>>) =>
    LET got == Unwrap(roundtrip.result) IN
    /\ got.ok
    /\ got.meta = Some(ScanMeta)
    /\ SameUpToOrder(got.entries, roundtrip.entries)
    /\ Len(got.entries) = Cardinality(Unwrap(summary).entries)
    /\ got.errors = roundtrip.errors
    /\ Len(got.errors) = Len(Unwrap(summary).errors)

\* the strategy the spec's resolution rules give for this scan on the
\* modelled build: the override if the build supports it, else legacy; with
\* no override the strategy mapped from the root's filesystem kind (EXT on
\* Linux), demoted to legacy when unsupported
ExpectedStrategy ==
  LET preferred == IF IsSome(opts.strategy_override) THEN Unwrap(opts.strategy_override)
                   ELSE "posix"
  IN IF preferred = "legacy" \/ IsSupported(preferred) THEN preferred ELSE "legacy"

C13_ParentPathAbsentIffRoot ==
  (ScanDone /\ Unwrap(summary).ok) =>
    \A e \in Unwrap(summary).entries :
      /\ (e.parent_path = None) <=> (e.depth = 0)
      /\ e.depth # 0 =>
           \E n \in Nodes \ {"root"} :
             /\ e.path = normalize_path(PathOf(n))
             /\ e.parent_path = Some(normalize_path(PathOf(Parent(n))))

\* the latest consider call was not the first on its throttler
LaterCall == probe.called /\ Unwrap(probe.before).last_emit # None

\* time and bytes between the latest call and the emission (or arming) before it
ProbeElapsed == probe.t - Unwrap(Unwrap(probe.before).last_emit)
ProbeBytes == probe.bytes - Unwrap(probe.before).last_emit_bytes

\* C14 (as amended): the first consider call arms the timer and returns no
\* snapshot; every later call returns a snapshot if and only if
\* now - last_emit >= interval, or the byte trigger is enabled and
\* now - last_emit >= max(interval/2, 100 ms) and
\* bytes - last_emit_bytes >= byte_trigger, interval and byte_trigger being
\* the configured values raised to 100 ms and 64 KiB.
C14_ConsiderEmitsIffGatesWithFloor ==
  probe.called =>
    LET th == Unwrap(probe.before) IN
    /\ th.interval = Max(opts.progress_interval, MIN_INTERVAL)
    /\ th.byte_trigger = Max(opts.progress_byte_trigger, MIN_BYTE_TRIGGER)
    /\ th.last_emit = None =>
         /\ probe.snap = None
         /\ throttler.last_emit = Some(probe.t)
    /\ th.last_emit # None =>
         (IsSome(probe.snap) <=>
            \/ ProbeElapsed >= th.interval
            \/ /\ th.byte_trigger # U64_MAX
               /\ ProbeElapsed >= Max(th.interval \div 2, MIN_INTERVAL)
               /\ ProbeBytes >= th.byte_trigger)

\* a later call emitted on the byte trigger alone, before the interval had passed
C14_Witness ==
  /\ LaterCall
  /\ IsSome(probe.snap)
  /\ ProbeElapsed < Unwrap(probe.before).interval
  /\ ProbeBytes >= Unwrap(probe.before).byte_trigger

\* C14 (as stated): the byte trigger fires once half the interval has passed
C14_ConsiderEmitsIffGates ==
  probe.called =>
    LET th == Unwrap(probe.before) IN
    /\ th.last_emit = None => probe.snap = None
    /\ th.last_emit # None =>
         (IsSome(probe.snap) <=>
            \/ ProbeElapsed >= th.interval
            \/ /\ th.byte_trigger # U64_MAX
               /\ ProbeElapsed >= th.interval \div 2
               /\ ProbeBytes >= th.byte_trigger)

\* the snapshots of a trace emitted by consider (the forced final one left out)
Intermediate(p) == {i \in DOMAIN p : p[i].estimated_completion_ratio # Some(1)}

\* C15 (as amended): in every scan's progress trace the timestamps of any two
\* snapshots other than the final one differ by at least
\* max(interval/2, 100 ms), the interval taken as no less than 100 ms; the
\* final snapshot follows the one before it at any distance.
C15_IntermediateSnapshotsSpacedByGate ==
  (ScanDone /\ Unwrap(summary).ok) =>
    LET p == Unwrap(summary).progress
        interval == Max(opts.progress_interval, MIN_INTERVAL)
    IN \A i \in Intermediate(p), j \in Intermediate(p) :
         i # j => Abs(p[i].timestamp_ms - p[j].timestamp_ms) >= Max(interval \div 2, MIN_INTERVAL)

\* a scan whose interval is 200 ms returned a trace with two snapshots from
\* consider that are 100 ms apart
C15_Witness ==
  /\ ScanDone
  /\ Unwrap(summary).ok
  /\ opts.progress_interval = 2 * MIN_INTERVAL
  /\ LET p == Unwrap(summary).progress IN
     \E i \in Intermediate(p), j \in Intermediate(p) :
       p[j].timestamp_ms - p[i].timestamp_ms = MIN_INTERVAL

\* C15 (as stated): any two consecutive snapshots of a trace are at least the
\* interval (no less than 100 ms) apart
C15_ConsecutiveSnapshotsSpacedByInterval ==
  (ScanDone /\ Unwrap(summary).ok) =>
    LET p == Unwrap(summary).progress
        interval == Max(opts.progress_interval, MIN_INTERVAL)
    IN \A i \in 1..(Len(p) - 1) : p[i + 1].timestamp_ms - p[i].timestamp_ms >= interval

\* C16: read_snapshot accepts a snapshot whose entry, error and metadata row
\* groups lie in any order, exactly one metadata row existing: it returns the
\* metadata of that row, the entries and the errors of the file.
C16_ReadAcceptsAnyGroupOrder ==
  (roundtrip.state = "read" /\ roundtrip.order # <<>>) =>
    LET got == Unwrap(roundtrip.result) IN
    /\ got.ok
    /\ got.meta = roundtrip.meta
    /\ got.entries = roundtrip.entries
    /\ got.errors = roundtrip.errors

\* the streaming sink has returned from finish
ParquetFinished == sink.kind = "parquet" /\ IsSome(sink.finished)

\* the kinds of the row groups finish wrote, in the order written
FinishWrites == SelectSeq(sink.written, LAMBDA g : g.by = "finish")

\* the row groups finish is to write for the sink's state at the call: the
\* buffered entries if any, the errors if any, the metadata
FinishPlan ==
  LET before == [i \in 1..Len(sink.written) - Len(FinishWrites) |-> sink.written[i]]
      recorded == SelectSeq(sink.calls, LAMBDA c : c.op = "record_entry")
      rows_before == LET RECURSIVE Total(_)
                         Total(k) == IF k = 0 THEN 0 ELSE Len(before[k].rows) + Total(k - 1)
                     IN Total(Len(before))
  IN (IF Len(recorded) > rows_before THEN <<"entries">> ELSE <<>>)
       \o (IF sink.errors # <<>> THEN <<"errors">> ELSE <<>>)
       \o <<"metadata">>

\* C17: finish writes in this order: the entries still in the buffer (if
\* any), one row group with all recorded errors (only if there are any), one
\* single-row metadata group, and only then closes the writer; it writes no
\* entry row group after the error or metadata group.
C17_FinishWritesInOrder ==
  ParquetFinished =>
    LET w == FinishWrites
        kinds == [i \in DOMAIN w |-> w[i].kind]
    IN /\ Len(kinds) <= Len(FinishPlan)
       /\ kinds = SubSeq(FinishPlan, 1, Len(kinds))
       /\ \A i \in DOMAIN w : w[i].kind = "errors" => w[i].rows = create_errors_batch(sink.errors)
       /\ \A i \in DOMAIN w : w[i].kind = "metadata" => Len(w[i].rows) = 1
       /\ \A i \in DOMAIN sink.written, j \in DOMAIN sink.written :
            (i < j /\ sink.written[i].kind # "entries") => sink.written[j].kind # "entries"
       /\ sink.writer = "closed" <=> Unwrap(sink.finished).ok
       /\ Unwrap(sink.finished).ok => kinds = FinishPlan

\* finish returned Ok after writing buffered entries, errors and the metadata
C17_Witness ==
  /\ ParquetFinished
  /\ Unwrap(sink.finished).ok
  /\ sink.writer = "closed"
  /\ \A i \in DOMAIN sink.calls : sink.calls[i].ok
  /\ [i \in DOMAIN FinishWrites |-> FinishWrites[i].kind] = <<"entries", "errors", "metadata">>

\* set_metadata was called on the sink
MetadataSet == \E i \in DOMAIN sink.calls : sink.calls[i].op = "set_metadata"

\* C18: ParquetStreamSink::finish returns an error whenever set_metadata was
\* not called before it, whatever entries and errors were recorded, and then
\* writes no metadata row group.
C18_FinishFailsWithoutMetadata ==
  (ParquetFinished /\ ~MetadataSet) =>
    /\ ~Unwrap(sink.finished).ok
    /\ Unwrap(sink.finished).out = None
    /\ \A i \in DOMAIN sink.written : sink.written[i].kind # "metadata"
    /\ sink.writer # "closed"

\* finish failed for want of metadata after it wrote the buffered entries and
\* the errors
C18_Witness ==
  /\ ParquetFinished
  /\ ~MetadataSet
  /\ ~Unwrap(sink.finished).ok
  /\ [i \in DOMAIN FinishWrites |-> FinishWrites[i].kind] = <<"entries", "errors">>

\* the calls of record_entry made so far, and whether one of them failed
EntryCalls == SelectSeq(sink.calls, LAMBDA c : c.op = "record_entry")
EntryCallFailed == \E i \in DOMAIN EntryCalls : ~EntryCalls[i].ok

\* the entry row groups written by record_entry, that is before finish
EarlyGroups == SelectSeq(sink.written, LAMBDA g : g.kind = "entries" /\ g.by = "record_entry")

\* the capacity c: the configured value raised to at least 1, default 4096
CapacityOf(configured) ==
  IF configured = None THEN 4096 ELSE IF Unwrap(configured) < 1 THEN 1 ELSE Unwrap(configured)

\* C19 (as amended): for the streaming sink with capacity c, after every
\* successful record_entry the buffer holds fewer than c entries; every entry
\* row group written before finish holds at least c rows, and exactly c rows
\* as long as no record_entry has failed.
C19_BufferBelowCapacityGroupsAtLeastFull ==
  sink.kind = "parquet" =>
    /\ sink.buffer_capacity = CapacityOf(sink.configured)
    /\ (sink.finished = None /\ sink.calls # <<>> /\ Last(sink.calls).op = "record_entry"
          /\ Last(sink.calls).ok) => Len(sink.buffer) < sink.buffer_capacity
    /\ \A i \in DOMAIN EarlyGroups :
         /\ Len(EarlyGroups[i].rows) >= sink.buffer_capacity
         /\ ~EntryCallFailed => Len(EarlyGroups[i].rows) = sink.buffer_capacity

\* a sink of capacity 2 has written a full row group from record_entry and
\* holds one more entry in its buffer
C19_Witness ==
  /\ sink.kind = "parquet"
  /\ sink.configured = Some(2)
  /\ ~EntryCallFailed
  /\ Len(EarlyGroups) = 1
  /\ Len(sink.buffer) = 1
  /\ Last(sink.calls).op = "record_entry"

\* C19 (as stated): every entry row group written before finish holds exactly c rows
C19_BufferBelowCapacityGroupsFull ==
  sink.kind = "parquet" =>
    /\ (sink.finished = None /\ sink.calls # <<>> /\ Last(sink.calls).op = "record_entry"
          /\ Last(sink.calls).ok) => Len(sink.buffer) < sink.buffer_capacity
    /\ \A i \in DOMAIN EarlyGroups : Len(EarlyGroups[i].rows) = sink.buffer_capacity

\* the memory sink has returned from finish
MemoryFinished == sink.kind = "memory" /\ IsSome(sink.finished)

\* the entry recorded last for a path
LastRecorded(path) ==
  LET idx == {i \in DOMAIN EntryCalls : EntryCalls[i].arg.path = path}
  IN EntryCalls[CHOOSE i \in idx : \A j \in idx : j <= i].arg

\* C20: for every sequence of record_entry and record_error calls on the
\* memory sink, finish returns exactly one entry per distinct path, the one
\* recorded last for it, in ascending order of path, and the errors in the
\* order recorded.
C20_MemorySinkLastWriterSorted ==
  MemoryFinished =>
    LET out == Unwrap(Unwrap(sink.finished).out)
        paths == {EntryCalls[i].arg.path : i \in DOMAIN EntryCalls}
    IN /\ Unwrap(sink.finished).ok
       /\ Len(out.entries) = Cardinality(paths)
       /\ \A p \in paths : \E i \in DOMAIN out.entries : out.entries[i] = LastRecorded(p)
       /\ \A i \in DOMAIN out.entries, j \in DOMAIN out.entries :
            i < j => LexLess(Bytes(out.entries[i].path), Bytes(out.entries[j].path))
       /\ out.errors = [i \in DOMAIN SelectSeq(sink.calls, LAMBDA c : c.op = "record_error") |->
                          SelectSeq(sink.calls, LAMBDA c : c.op = "record_error")[i].arg]

\* a path was recorded twice with different entries, a smaller path after a
\* greater one, and two errors
C20_Witness ==
  /\ MemoryFinished
  /\ Len(Unwrap(Unwrap(sink.finished).out).entries) = 2
  /\ Len(EntryCalls) = 3
  /\ \E i, j \in DOMAIN EntryCalls :
       i < j /\ EntryCalls[i].arg.path = EntryCalls[j].arg.path /\ EntryCalls[i].arg # EntryCalls[j].arg
  /\ \E i, j \in DOMAIN EntryCalls :
       i < j /\ LexLess(Bytes(EntryCalls[j].arg.path), Bytes(EntryCalls[i].arg.path))
  /\ Len(Unwrap(Unwrap(sink.finished).out).errors) = 1

\* a sink has returned Ok from finish
SinkFinishedOk == IsSome(sink.finished) /\ Unwrap(sink.finished).ok

\* the rows written to entry row groups
RECURSIVE EntryRowsWritten(_)
EntryRowsWritten(groups) ==
  IF groups = <<>> THEN 0
  ELSE (IF Head(groups).kind = "entries" THEN Len(Head(groups).rows) ELSE 0)
         + EntryRowsWritten(Tail(groups))

\* the paths record_entry was called with
RecordedPaths == {EntryCalls[i].arg.path : i \in DOMAIN EntryCalls}

\* C21 (as amended): the entry_count returned by a sink's finish is the number
\* of record_entry calls made; for the memory sink it equals the number of
\* entries returned by finish when no path was recorded twice (a path recorded
\* again is counted again but returned once), and for the streaming sink it
\* equals the total number of rows written to entry row groups.
C21_EntryCountCountsCalls ==
  SinkFinishedOk =>
    LET out == Unwrap(Unwrap(sink.finished).out) IN
    /\ out.entry_count = Len(EntryCalls)
    /\ sink.kind = "memory" =>
         /\ Len(out.entries) = Cardinality(RecordedPaths)
         /\ Cardinality(RecordedPaths) = Len(EntryCalls) => out.entry_count = Len(out.entries)
    /\ sink.kind = "parquet" =>
         /\ out.entries = <<>>
         /\ out.entry_count = EntryRowsWritten(sink.written)

\* a streaming sink of capacity 2 finished after three entries: one row group
\* written by record_entry, one by finish, entry_count 3
C21_Witness ==
  /\ SinkFinishedOk
  /\ sink.kind = "parquet"
  /\ sink.configured = Some(2)
  /\ Unwrap(Unwrap(sink.finished).out).entry_count = 3
  /\ Len(SelectSeq(sink.written, LAMBDA g : g.kind = "entries")) = 2

\* C21 (as stated): for the memory sink entry_count equals the number of
\* entries returned by finish, for every sequence of record_entry calls
C21_EntryCountIsEntriesReturned ==
  SinkFinishedOk =>
    LET out == Unwrap(Unwrap(sink.finished).out) IN
    /\ sink.kind = "memory" => out.entry_count = Len(out.entries)
    /\ sink.kind = "parquet" => out.entry_count = EntryRowsWritten(sink.written)

\* the two names of the hardlinked file of the scanned tree
Hardlinked == IF world.hl = "ab" THEN <<"a", "b">> ELSE <<"b", "y">>

\* the emitted entries of a result for node n
EntriesFor(res, n) == {e \in res.entries : e.path = normalize_path(PathOf(n))}

\* C22: when two paths X and Y inside the scanned tree are hardlinks of one
\* file, both are emitted as entries under either policy; under dedupe exactly
\* one of them carries the file's size and the other size_bytes = 0, and the
\* file's size is added exactly once to the root total; under count both carry
\* the size and both are added.
C22_HardlinksEmittedAndCountedPerPolicy ==
  (ScanDone /\ Unwrap(summary).ok /\ world.hl # "none") =>
    LET res == Unwrap(summary)
        X == Hardlinked[1]
        Y == Hardlinked[2]
        size == get_size(X)
        others == SumFn([f \in Files |-> get_size(f)], Files \ {X, Y})
    IN /\ Cardinality(EntriesFor(res, X)) = 1
       /\ Cardinality(EntriesFor(res, Y)) = 1
       /\ \A ex \in EntriesFor(res, X), ey \in EntriesFor(res, Y) :
            IF opts.hardlink_policy = "dedupe"
            THEN /\ \/ (ex.size_bytes = size /\ ey.size_bytes = 0)
                    \/ (ex.size_bytes = 0 /\ ey.size_bytes = size)
                 /\ RootTotal(res) = others + size
            ELSE /\ ex.size_bytes = size
                 /\ ey.size_bytes = size
                 /\ RootTotal(res) = others + size + size

\* a deduplicating scan emitted both names of a file hardlinked across two
\* directories, the one met second with size 0
C22_Witness ==
  /\ ScanDone
  /\ Unwrap(summary).ok
  /\ world.hl = "by"
  /\ opts.hardlink_policy = "dedupe"
  /\ \E ex \in EntriesFor(Unwrap(summary), "b"), ey \in EntriesFor(Unwrap(summary), "y") :
       ex.size_bytes + ey.size_bytes = get_size("b") /\ get_size("b") > 0
  /\ RootTotal(Unwrap(summary)) = get_size("a") + get_size("b") + get_size("c")

\* the nodes of the tree that lie on another device than the scan root
OnOtherDevice == {n \in Nodes : get_device_id(n) # get_device_id("root")}

\* C23: with cross_filesystem = false, every entry emitted by any strategy has
\* the device id of the scan root: a child whose device id differs is neither
\* emitted nor descended into, and contributes no bytes.
C23_NoEntryFromOtherDevice ==
  (ScanDone /\ Unwrap(summary).ok /\ ~opts.cross_filesystem) =>
    \A n \in OnOtherDevice :
      /\ EntriesFor(Unwrap(summary), n) = {}
      /\ n \notin DOMAIN counted
      /\ n \in Dirs => frames[n].idx = 1

\* C24: at the end of every scan that returns a Summary, for every emitted
\* entry of depth greater than 0 there is an emitted entry whose path equals
\* that entry's parent_path and whose depth is exactly one less.
C24_ParentEntryEmitted ==
  (ScanDone /\ Unwrap(summary).ok) =>
    \A e \in Unwrap(summary).entries :
      e.depth > 0 =>
        \E p \in Unwrap(summary).entries :
          /\ e.parent_path = Some(p.path)
          /\ p.depth = e.depth - 1

\* the directory descriptors (OwnedFd) open
OpenFds == {x \in AllDirs : frames[x].fd = "open"}

\* the depth of the scanned tree: its levels, root to the deepest file
TreeDepth == NodeDepth("c") + 1

\* C25: in the POSIX-optimized strategy a directory's descriptor is released
\* before any of its child directories is scheduled, and the number of
\* directory descriptors open at any instant never exceeds tree depth x pool
\* width.
C25_DescriptorsBoundedByDepthTimesWidth ==
  strategy = "posix" =>
    /\ \A c \in AllDirs \ {"root"} :
         frames[c].pc # "idle" => frames[Parent(c)].fd # "open"
    /\ Cardinality(OpenFds) <= TreeDepth * world.pool

\* the task holding the descriptor opened for directory x: the parent's
\* activation while x waits in its child_dirs, x's own activation afterwards
OwnerOf(x) == IF frames[x].pc = "idle" THEN Parent(x) ELSE x

\* the strategy's traverse has returned
TraverseReturned == frames["root"].pc \in {"ret", "done"}

\* C26: every directory descriptor or listing handle opened during a scan is
\* owned by exactly one task at a time and is released on every exit path:
\* an open descriptor belongs to an activation that has not returned (the
\* parent's while inside its listing loop, then the directory's own until its
\* loop ends), and when the strategy's traverse returns, with success or with
\* an error, nothing opened by the scan is still open.
C26_DescriptorsOwnedAndReleased ==
  /\ \A x \in AllDirs :
       frames[x].fd = "open" =>
         /\ x # "root" /\ frames[x].pc = "idle" =>
              /\ frames[Parent(x)].pc \in RunningPcs
              /\ frames[Parent(x)].fd = "open"
              /\ \E i \in DOMAIN frames[Parent(x)].child_dirs : frames[Parent(x)].child_dirs[i] = x
         /\ frames[x].pc # "idle" => frames[x].pc \in {"ready"} \cup RunningPcs
         /\ frames[OwnerOf(x)].pc \notin {"ret", "done", "skipped", "join"}
  /\ \A x \in AllDirs :
       frames[x].dir = "open" => frames[x].pc \in RunningPcs \cup {"call"}
  /\ TraverseReturned =>
       \A x \in AllDirs : frames[x].fd # "open" /\ frames[x].dir # "open"

\* the traversal returned the error of a listing that could not be read: a
\* sibling directory already opened was never handed to a worker and its
\* descriptor was released, the others ran to their end
C26_Witness ==
  /\ TraverseReturned
  /\ strategy = "posix"
  /\ ~frames["root"].ok
  /\ Fault("w2", "list")
  /\ frames["w3"].pc = "skipped"
  /\ frames["w3"].fd = "closed"
  /\ frames["deep"].fd = "closed"
  /\ frames["deep"].dir = "closed"

\* the directories whose activation returned the sink's error
SinkFailedIn == {d \in AllDirs : frames[d].err = "sink"}

\* d and the directories above it
RECURSIVE SelfAndAncestors(_)
SelfAndAncestors(d) == IF d = "root" THEN {"root"} ELSE {d} \cup SelfAndAncestors(Parent(d))

\* C27: if the sink fails while an entry or an error is being recorded, the
\* failure is returned up through the worker pool: the directory being
\* processed and all of its ancestors emit no entry, the dispatcher's traverse
\* returns the error, and the scan returns an Io error instead of a Summary;
\* sibling subtrees already scheduled may still complete.
C27_SinkFailureAbortsScan ==
  \A d \in SinkFailedIn :
    /\ \A x \in SelfAndAncestors(d) : PathOf(x).comps \notin DOMAIN entries
    /\ \A x \in SelfAndAncestors(d) : frames[x].pc \in {"ret", "done"} => ~frames[x].ok
    /\ TraverseReturned => ~frames["root"].ok
    /\ ScanDone => ~Unwrap(summary).ok

\* the sink failed on the file of sub/deep; the scan returned the error after
\* one sibling directory of sub had emitted its entry and another had been
\* dropped from the pool
C27_Witness ==
  /\ ScanDone
  /\ ~Unwrap(summary).ok
  /\ frames["deep"].err = "sink"
  /\ PathOf("w1").comps \in DOMAIN entries
  /\ frames["w3"].pc = "skipped"

\* the three clusters of columns of a row: all null / some column filled
EntryColsNull(r) ==
  /\ r.path = Null /\ r.parent_path = Null /\ r.depth = Null
  /\ r.size_bytes = Null /\ r.file_count = Null /\ r.dir_count = Null
MetaColsNull(r) ==
  /\ r.meta_scan_root = Null /\ r.meta_started_at = Null /\ r.meta_finished_at = Null
  /\ r.meta_size_basis = Null /\ r.meta_hardlink_policy = Null
ErrorColsNull(r) == r.error_path = Null /\ r.error_code = Null /\ r.error_message = Null

\* C28: every snapshot file written holds three disjoint kinds of row: an
\* entry row has all metadata and all error columns null, an error row has all
\* entry and all metadata columns null, and there is exactly one metadata row,
\* which has all entry and all error columns null.
C28_RowKindsDisjointOneMetadataRow ==
  roundtrip.state \in {"written", "read"} =>
    LET rows == roundtrip.file IN
    /\ \A i \in DOMAIN rows :
         /\ ~EntryColsNull(rows[i]) => MetaColsNull(rows[i]) /\ ErrorColsNull(rows[i])
         /\ ~ErrorColsNull(rows[i]) => EntryColsNull(rows[i]) /\ MetaColsNull(rows[i])
    /\ Cardinality({i \in DOMAIN rows :
                      ~MetaColsNull(rows[i]) /\ EntryColsNull(rows[i]) /\ ErrorColsNull(rows[i])}) = 1

\* C29: force_emit returns a snapshot on every call, in every throttler
\* state, with estimated_completion_ratio = 1.0, and no snapshot returned by
\* consider ever has estimated_completion_ratio set; hence every snapshot of a
\* progress trace that marks completion was produced by finalize_progress.
C29_OnlyForceEmitMarksCompletion ==
  /\ IsSome(probe.forced) =>
       /\ IsSome(Unwrap(probe.forced).snap)
       /\ Unwrap(Unwrap(probe.forced).snap).estimated_completion_ratio = Some(1)
  /\ (probe.called /\ IsSome(probe.snap)) =>
       Unwrap(probe.snap).estimated_completion_ratio = None
  /\ \A i \in DOMAIN progress_events : progress_events[i].estimated_completion_ratio = None

\* consider emitted a snapshot, and force_emit, called at the same instant
\* with no gate of the throttler open, returned a snapshot marking completion
C29_Witness ==
  /\ IsSome(probe.forced)
  /\ probe.called
  /\ IsSome(probe.snap)
  /\ Unwrap(probe.forced).before.last_emit = Some(probe.t)
  /\ Unwrap(Unwrap(probe.forced).snap).timestamp_ms = probe.t
  /\ Unwrap(Unwrap(probe.forced).snap).estimated_completion_ratio = Some(1)

\* C30: after any sequence of throttler construction and set_interval calls
\* the effective interval is at least 100 ms and the effective byte trigger at
\* least 64 KiB; when the byte trigger is set to its maximum value consider
\* emits only when now - last_emit >= interval holds, whatever the byte counts.
C30_FloorsKeptAndMaxTriggerDisables ==
  /\ throttler.interval >= MIN_INTERVAL
  /\ throttler.byte_trigger >= MIN_BYTE_TRIGGER
  /\ (probe.called /\ Unwrap(probe.before).byte_trigger = U64_MAX /\ IsSome(probe.snap)) =>
       /\ Unwrap(probe.before).last_emit # None
       /\ probe.t - Unwrap(Unwrap(probe.before).last_emit) >= Unwrap(probe.before).interval

\* set_interval disabled the byte trigger of a throttler constructed with
\* one, and a later consider call with bytes beyond that trigger, made past
\* the byte gate but before the interval was over, emitted nothing
C30_Witness ==
  /\ probe.called
  /\ opts.progress_byte_trigger # U64_MAX
  /\ Unwrap(probe.before).byte_trigger = U64_MAX
  /\ Unwrap(probe.before).interval = 200
  /\ LaterCall
  /\ ProbeElapsed = MIN_INTERVAL
  /\ ProbeBytes >= DEFAULT_BYTE_TRIGGER
  /\ probe.snap = None


\* handle_scan returned
Exited == cmd.api = "handle_scan" /\ IsSome(cmd.exit)

\* an argument of the command is invalid
InvalidArgument == IsSome(invalid_argument(Unwrap(cmd.args)))

\* the root path is missing or not a directory
UnresolvedRoot == IsSome(check_root(world.root_kind, Fault("root", "stat")))

\* scan_summary returned a Summary / an I/O or unclassified error
ScanCompleted == summary # None /\ Unwrap(summary).ok
ScanFailedIo ==
  summary # None /\ ~Unwrap(summary).ok /\ Unwrap(summary).err \notin {"InvalidInput", "PartialFailure"}

\* C31 (as stated): the scan command exits with 2 when an argument is invalid
\* or the root path is missing or not a directory, with 4 when the scan or
\* the snapshot write fails with an I/O or unclassified error, with 3 when the
\* scan completed and its error list is non-empty, and with 0 only when the
\* scan completed with an empty error list and the snapshot was written.
C31_ExitCodes ==
  Exited =>
    /\ (InvalidArgument \/ UnresolvedRoot) => cmd.exit = Some(2)
    /\ (ScanFailedIo \/ roundtrip.state = "failed") => cmd.exit = Some(4)
    /\ (ScanCompleted /\ Unwrap(summary).errors # <<>>) => cmd.exit = Some(3)
    /\ cmd.exit = Some(0) =>
         ScanCompleted /\ Unwrap(summary).errors = <<>> /\ roundtrip.state = "written"

\* C31 (as amended): the scan command exits with 2 when an argument is
\* invalid or the root path is missing or not a directory, with 4 when the
\* scan or the snapshot write fails with an I/O or unclassified error, also
\* when the scan completed with a non-empty error list, with 3 when the scan
\* completed with a non-empty error list and the snapshot was written, and
\* with 0 only when the scan completed with an empty error list and the
\* snapshot was written; it exits with no other code.
C31_ExitCodesWriteFailureFirst ==
  Exited =>
    /\ Unwrap(cmd.exit) \in {0, 2, 3, 4}
    /\ (InvalidArgument \/ UnresolvedRoot) => cmd.exit = Some(2)
    /\ (ScanFailedIo \/ roundtrip.state = "failed") => cmd.exit = Some(4)
    /\ (ScanCompleted /\ Unwrap(summary).errors # <<>> /\ roundtrip.state = "written") =>
         cmd.exit = Some(3)
    /\ cmd.exit = Some(0) =>
         ScanCompleted /\ Unwrap(summary).errors = <<>> /\ roundtrip.state = "written"
    /\ cmd.exit = Some(2) => (InvalidArgument \/ UnresolvedRoot)

\* the scan of a tree with an unreadable child completed, the snapshot was
\* written and the command exited with 3
C31_Witness ==
  /\ Exited
  /\ ScanCompleted
  /\ Unwrap(summary).errors # <<>>
  /\ roundtrip.state = "written"
  /\ cmd.exit = Some(3)


\* C32: scan_summary and scan_to_snapshot return an InvalidInput error when
\* the root path does not exist or is not a directory; in that case no
\* traversal is started, no sink is created and no snapshot file is written.
C32_RootRejectedBeforeAnyWork ==
  (cmd.api # "none" /\ world.root_kind # "dir" /\ phase \notin {"args", "check"}) =>
    /\ phase = "done"
    /\ summary # None
    /\ ~Unwrap(summary).ok
    /\ Unwrap(summary).err = "InvalidInput"
    /\ \A d \in AllDirs : frames[d] = NewFrame
    /\ entries = <<>> /\ errors = <<>> /\ processed_entries = 0
    /\ sink = NoSink
    /\ roundtrip.state = "none"

\* scan_to_snapshot was called on a path that names a file and returned
\* InvalidInput
C32_Witness ==
  /\ cmd.api = "scan_to_snapshot"
  /\ world.root_kind = "file"
  /\ phase = "done"
  /\ Unwrap(summary).err = "InvalidInput"
  /\ sink = NoSink


\* the symbolic link of the tree and what lies behind it
BehindLink == {n \in Nodes : InSubtree(n, world.sym)}

\* the children of a directory that are not the link, by kind
ChildrenBesideLink(d, S) == {c \in (S \cap Nodes) \ {"root", world.sym} : Parent(c) = d}

\* C33: with follow_symlinks = false, in every strategy no symbolic link is
\* emitted as an entry, counted in a directory's file_count or dir_count,
\* descended into, or attributed any bytes; its target's metadata is never
\* used.
C33_SymlinksSkipped ==
  (~opts.follow_symlinks /\ world.sym # "none") =>
    /\ \A n \in BehindLink : PathOf(n).comps \notin DOMAIN entries
    /\ \A n \in BehindLink : n \notin DOMAIN counted
    /\ \A n \in BehindLink \cap AllDirs : frames[n] = NewFrame
    /\ PathOf(Parent(world.sym)).comps \in DOMAIN entries =>
         LET e == entries[PathOf(Parent(world.sym)).comps] IN
         /\ e.file_count = Cardinality(ChildrenBesideLink(Parent(world.sym), Files))
         /\ e.dir_count = Cardinality(ChildrenBesideLink(Parent(world.sym), Dirs))
    /\ (ScanDone /\ Unwrap(summary).ok) =>
         /\ RootTotal(Unwrap(summary)) = SumFn([n \in Files |-> get_size(n)], Files \ BehindLink)
         /\ processed_bytes = RootTotal(Unwrap(summary))

\* the optimized scan of the tree whose directory oth is a symbolic link has
\* returned: the root counts one directory and one file
C33_Witness ==
  /\ ~opts.follow_symlinks
  /\ world.sym = "oth"
  /\ strategy = "posix"
  /\ ScanDone
  /\ Unwrap(summary).ok
  /\ Cardinality(Unwrap(summary).entries) = 6


\* the rearrangements of the positions 1..n
Rearrangements(n) == {f \in [1..n -> 1..n] : \A i, j \in 1..n : i # j => f[i] # f[j]}

\* C34: sort_and_limit returns the input entries ordered by the chosen field
\* (size, files or dirs) in non-increasing order, keeps entries with equal
\* keys in their input order, and, when top_k = k is given, returns exactly
\* the first min(k, n) entries of that order; no entry is altered or
\* duplicated.
C34_SortedStableAndLimited ==
  agg.op = "sort_and_limit" =>
    LET n == Len(agg.input)
        m == IF IsSome(agg.top_k) /\ Unwrap(agg.top_k) < n THEN Unwrap(agg.top_k) ELSE n
        key(i) == SortKey(agg.input[i], agg.sort_by)
    IN \E f \in Rearrangements(n) :
         /\ \A i, j \in 1..n : i < j =>
              \/ key(f[i]) > key(f[j])
              \/ key(f[i]) = key(f[j]) /\ f[i] < f[j]
         /\ agg.result = [i \in 1..m |-> agg.input[f[i]]]

\* three entries were sorted by size and limited to two: the largest first,
\* then the first of the two entries of equal size as they were given
C34_Witness ==
  /\ agg.op = "sort_and_limit"
  /\ agg.sort_by = "size"
  /\ agg.top_k = Some(2)
  /\ Len(agg.input) = 3
  /\ agg.input[1].path = "c" /\ agg.input[2].path = "b" /\ agg.input[3].path = "a"
  /\ agg.input[3].size_bytes = agg.input[1].size_bytes
  /\ agg.result = <<agg.input[2], agg.input[1]>>


\* the sum of the size_bytes of a list of entries
RECURSIVE SumSizeBytes(_)
SumSizeBytes(es) == IF es = <<>> THEN 0 ELSE Head(es).size_bytes + SumSizeBytes(Tail(es))

\* C35: consolidate_shards returns totals that are independent of the order
\* in which the shards are merged and that agree with the returned entries:
\* the number of entries equals totals.files + totals.directories and
\* totals.size_bytes equals the sum of the returned entries' size_bytes, for
\* every collection of shards built by absorb_entry.
C35_TotalsAgreeWithEntries ==
  agg.op = "consolidate_shards" =>
    /\ agg.result.totals = agg.swapped.totals
    /\ Len(agg.result.entries) = agg.result.totals.files + agg.result.totals.directories
    /\ agg.result.totals.size_bytes = SumSizeBytes(agg.result.entries)

\* the first half of C35 alone: the totals do not depend on the order of the
\* shards
C35_TotalsOrderIndependent ==
  agg.op = "consolidate_shards" => agg.result.totals = agg.swapped.totals

\* C35 for shards that were given every path once
C35_AgreeForDistinctPaths ==
  (agg.op = "consolidate_shards" /\ Len(agg.result.entries) = agg.absorbed) =>
    /\ Len(agg.result.entries) = agg.result.totals.files + agg.result.totals.directories
    /\ agg.result.totals.size_bytes = SumSizeBytes(agg.result.entries)


\* C36: the root-device cell is written at most once per scan: once a device
\* id has been recorded it never changes, however many workers call
\* set_root_device_if_absent and with whatever values, and it is never
\* recorded when cross_filesystem is true.
C36_RootDeviceWrittenOnce ==
  /\ Len(callers.writes) <= 1
  /\ callers.writes # <<>> => root_device = Some(callers.writes[1])
  /\ callers.writes = <<>> => root_device = None
  /\ opts.cross_filesystem => root_device = None

\* three threads have called with three different device ids and returned:
\* the cell holds the id of the second caller, which locked the mutex first
C36_Witness ==
  /\ \A w \in Callers : callers.pc[w] = "done"
  /\ callers.device[1] = 1 /\ callers.device[2] = 2 /\ callers.device[3] = 3
  /\ root_device = Some(2)
  /\ callers.writes = <<2>>


\* the code the match of record_error gives an io::ErrorKind
CodeOfKind(kind) ==
  IF kind = "NotFound" THEN "ENOENT" ELSE IF kind = "PermissionDenied" THEN "EACCES" ELSE "IO"

\* C37: record_error maps every error kind to exactly one code (NotFound to
\* ENOENT, PermissionDenied to EACCES, every other kind to IO); each call
\* appends exactly one ErrorItem, keeps the earlier ErrorItems in place, and
\* leaves the entries, the hardlink set and the progress counters unchanged.
C37_RecordErrorAppendsOneItem ==
  [][errors' # errors =>
       /\ Len(errors') = Len(errors) + 1
       /\ SubSeq(errors', 1, Len(errors)) = errors
       /\ errors'[Len(errors')].code = CodeOfKind(errors'[Len(errors')].message)
       /\ UNCHANGED <<entries, seen_inodes, processed_entries, processed_bytes, progress_events>>]_vars

\* three calls on a filled context, one for each code, in this order
C37_Witness ==
  /\ Len(errors) = 3
  /\ errors[1].code = "EACCES" /\ errors[2].code = "IO" /\ errors[3].code = "ENOENT"
  /\ errors[2].message = "InvalidData"
  /\ entries # <<>>
  /\ processed_bytes = 100


\* path j is a proper ancestor of path k, both as component lists
ProperAncestor(j, k) == Len(j) < Len(k) /\ SubSeq(k, 1, Len(j)) = j

\* the paths a step hands an entry for
Emitted ==
  {k \in DOMAIN entries' : k \notin DOMAIN entries \/ entries'[k] # entries[k]}

\* C38: in every strategy and under every interleaving of the workers, a
\* directory's entry is emitted only after the entries of all its emitted
\* descendants: no entry is emitted below a directory whose entry is already
\* there, and once the scan root's entry is there no entry is emitted at all.
C38_DescendantsBeforeDirectory ==
  [][/\ \A k \in Emitted : \A j \in DOMAIN entries : ~ProperAncestor(j, k)
     /\ (phase = "traversing" /\ RootPath.comps \in DOMAIN entries) => entries' = entries]_vars

\* two workers: the directory oth and its file have their entries while the
\* directory deep is still being read and neither sub nor the root has one
C38_Witness ==
  /\ phase = "traversing"
  /\ strategy = "posix"
  /\ PathOf("oth").comps \in DOMAIN entries
  /\ PathOf("y").comps \in DOMAIN entries
  /\ frames["deep"].pc \in RunningPcs
  /\ PathOf("sub").comps \notin DOMAIN entries
  /\ RootPath.comps \notin DOMAIN entries


\* the latest scan has returned a Summary and its frames are still in place
SummaryReturned ==
  /\ frames["root"].pc = "done"
  /\ IsSome(summary)
  /\ Unwrap(summary).ok

\* the root could be stat'ed, opened and listed
ReadableRoot == \A k \in FaultKinds : ~Fault("root", k)

\* C39: whenever a scan of a readable root returns a Summary, the last
\* snapshot of the progress trace has processed_bytes equal to the total that
\* traverse returned, which is the size_bytes of the root entry, under every
\* interleaving of the workers.
C39_FinalSnapshotCarriesRootTotal ==
  (SummaryReturned /\ ReadableRoot) =>
    /\ Unwrap(summary).progress # <<>>
    /\ Last(Unwrap(summary).progress).processed_bytes = frames["root"].val
    /\ \E e \in Unwrap(summary).entries :
         e.path = normalize_path(RootPath) /\ e.size_bytes = frames["root"].val

\* a scan by two workers under a running clock: snapshots were emitted during
\* the scan and the last one carries the root total
C39_Witness ==
  /\ SummaryReturned
  /\ ReadableRoot
  /\ strategy = "posix"
  /\ world.clock > 0
  /\ Len(Unwrap(summary).progress) >= 3
  /\ frames["root"].val > 0
  /\ Last(Unwrap(summary).progress).processed_bytes = frames["root"].val


\* the FileIds of the files the scan visited (should_count_file was called)
VisitedFileIds == {id \in FileIds : CallsFor(id) # {}}

\* the size of the file with this FileId: all its names have the same
SizeOfFileId(id) == get_size(CHOOSE f \in Files : file_id_from_metadata(f) = Some(id))

\* C40: under dedupe, the total returned for the root is the same in every
\* interleaving of the workers and every order of visiting hardlinked paths:
\* it is the sum of the file sizes over the distinct FileIds of the visited
\* files; only the directory a hardlinked file's bytes go to can differ.
C40_DedupeTotalIsSumOverFileIds ==
  (SummaryReturned /\ opts.hardlink_policy = "dedupe") =>
    /\ frames["root"].val = SumFn([id \in FileIds |-> SizeOfFileId(id)], VisitedFileIds)
    /\ \A id \in VisitedFileIds :
         SumFn([f \in Files |-> counted[f].size], CallsFor(id)) = SizeOfFileId(id)

\* two workers met the names b and y of one file in the other order than the
\* listing gives: the bytes went to y in oth, b in sub got none, and the root
\* total counts the file once
C40_Witness ==
  /\ SummaryReturned
  /\ opts.hardlink_policy = "dedupe"
  /\ strategy = "posix"
  /\ world.hl = "by"
  /\ counted["y"].res /\ ~counted["b"].res
  /\ counted["y"].size = get_size("y")
  /\ frames["root"].val = get_size("a") + get_size("b") + get_size("c")

====
